---- MODULE Spec2Model ----
(***************************************************************************)
(* QA_GODMODE: the evidence builder (lib/evidenceBuilder.ts), the LLM      *)
(* reasoning steps (lib/aiAgent.ts, lib/llmClient.ts), the mock sandbox    *)
(* (lib/execution.ts) and the state-machine orchestrator                   *)
(* (lib/orchestrator.ts).                                                  *)
(*                                                                         *)
(* A JavaScript string is a sequence of UTF-16 code units; here each code  *)
(* unit is a one-element TLA+ string ("a", ":", ...), and the code units   *)
(* that TLA+ cannot write inside a string literal have names (NL, CR, ...).*)
(***************************************************************************)
EXTENDS Integers, Sequences, FiniteSets, TLC

VARIABLES
    rawInput,       \* buildContextPack's argument, for a direct call of it
    packPc,         \* "call" before the direct call, "returned" or "threw" after
    pack,           \* what the direct call returned
    rawStackTrace,  \* runQaAgent's argument
    apiKey,         \* whether process.env.OPENAI_API_KEY is set
    state,          \* runQaAgent's local variable state
    pc,             \* where the run is in runQaAgent
    contextPack,    \* runQaAgent's five local records, undefined until assigned
    diagnosis,
    reproAndFix,
    execution,
    verification,
    calls,          \* the calls of diagnoseAndPlan, runInSandbox, verifyFixWithLlm so far
    failures,       \* the errors those calls have raised so far
    thrown,         \* <<e>> once runQaAgent has thrown e
    result,         \* <<r>> once runQaAgent has returned r
    sandboxInput,   \* runInSandbox's argument, for a direct call of it
    sandboxPc,      \* "call" before the direct call, "returned" or "threw" after
    sandboxOut,     \* what the direct call resolved to
    sdkKey,         \* whether process.env.DAYTONA_API_KEY is set
    sdkSteps,       \* createSandboxAndExecute's argument reproSteps
    sdkName,        \* its argument sandboxName, empty when not given
    sdkPc,          \* where the call is in createSandboxAndExecute
    sdkCommand,     \* its local variable command
    sdkSandbox,     \* <<sandbox>> once daytona.create has resolved
    sdkLog,         \* the SDK calls that have settled, in order
    sdkPending,     \* <<c>> once the inner try has completed with c
    sdkOut,         \* <<c>> once createSandboxAndExecute has completed with c
    wsPc,           \* where the call is in createDaytonaWorkspace
    wsPath,         \* the index of the path of the outer loop
    wsBody,         \* the index of the request body of the inner loop
    wsFound404,     \* its local variable found404
    wsLastError,    \* its local variable lastError: <<>> for null, or <<message>>
    wsRequests,     \* the create requests sent so far, in order
    wsWorkspace,    \* <<workspace>> once a create request was answered ok with one
    wsPolls,        \* the polls waitForWorkspaceReady has made
    wsOut,          \* <<c>> once createDaytonaWorkspace has completed with c
    exPc,           \* where the call is in executeInDaytona
    exPath,         \* the index of the path of its loop
    exRequests,     \* the exec requests sent so far, in order
    exOut,          \* <<result>> once executeInDaytona has returned
    request,        \* the request the POST handler was called with
    routePc,        \* where the handler is
    response,       \* <<r>> once the handler has answered r
    runsStarted     \* the calls of runQaAgent the handler has made

packVars == <<rawInput, packPc, pack>>

sandboxVars == <<sandboxInput, sandboxPc, sandboxOut>>

records == <<contextPack, diagnosis, reproAndFix, execution, verification>>

runVars == <<rawStackTrace, apiKey, state, pc, contextPack, diagnosis, reproAndFix,
             execution, verification, calls, failures, thrown, result>>

sdkVars == <<sdkKey, sdkSteps, sdkName, sdkPc, sdkCommand, sdkSandbox, sdkLog, sdkPending,
             sdkOut>>

wsVars == <<wsPc, wsPath, wsBody, wsFound404, wsLastError, wsRequests, wsWorkspace, wsPolls,
            wsOut>>

exVars == <<exPc, exPath, exRequests, exOut>>

routeVars == <<request, routePc, response, runsStarted>>

\* what a step of one function leaves alone: the variables of the others
outsideRun   == <<packVars, sandboxVars, sdkVars, wsVars, exVars, routeVars>>
outsidePack  == <<runVars, sandboxVars, sdkVars, wsVars, exVars, routeVars>>
outsideSandbox == <<runVars, packVars, sdkVars, wsVars, exVars, routeVars>>
notSdk       == <<runVars, packVars, sandboxVars, wsVars, exVars, routeVars>>
notWs        == <<runVars, packVars, sandboxVars, sdkVars, exVars, routeVars>>
notEx        == <<runVars, packVars, sandboxVars, sdkVars, wsVars, routeVars>>
outsideRoute == <<packVars, sandboxVars, sdkVars, wsVars, exVars>>

vars == <<rawInput, packPc, pack, rawStackTrace, apiKey, state, pc, contextPack, diagnosis,
          reproAndFix, execution, verification, calls, failures, thrown, result,
          sandboxInput, sandboxPc, sandboxOut, sdkVars, wsVars, exVars, routeVars>>

-----------------------------------------------------------------------------
(* Code units with a name. *)
NL    == "<LF>"
CR    == "<CR>"
TAB   == "<TAB>"
QUOTE == "<QUOTE>"
BSL   == "<BACKSLASH>"
SOH   == "<U+0001>"

\* String.prototype.trim strips WhiteSpace and LineTerminator code units.
WhiteSpace == {" ", TAB, NL, CR}

Rep(c, n) == [i \in 1..n |-> c]

Min(S) == CHOOSE x \in S : \A y \in S : x <= y

\* s.slice(0, n)
SliceTo(s, n) == SubSeq(s, 1, IF Len(s) < n THEN Len(s) ELSE n)

\* the number of white-space units s starts with, counting from unit i
RECURSIVE LeadingSpace(_, _)
LeadingSpace(s, i) ==
    IF i <= Len(s) /\ s[i] \in WhiteSpace THEN 1 + LeadingSpace(s, i + 1) ELSE 0

\* the number of white-space units s ends with, counting back from unit i
RECURSIVE TrailingSpace(_, _)
TrailingSpace(s, i) ==
    IF i >= 1 /\ s[i] \in WhiteSpace THEN 1 + TrailingSpace(s, i - 1) ELSE 0

\* s.trim()
Trim(s) ==
    LET lead == LeadingSpace(s, 1)
    IN  IF lead = Len(s) THEN <<>>
        ELSE SubSeq(s, lead + 1, Len(s) - TrailingSpace(s, Len(s)))

\* does p occur in s at position i
OccursAt(s, p, i) ==
    /\ i >= 1
    /\ i + Len(p) - 1 <= Len(s)
    /\ \A j \in 1..Len(p) : s[i + j - 1] = p[j]

\* s.includes(p)
Includes(s, p) == \E i \in 1..(Len(s) - Len(p) + 1) : OccursAt(s, p, i)

\* s.startsWith(p)
StartsWith(s, p) == OccursAt(s, p, 1)

UpperLetters == <<"A", "B", "C", "D", "E", "F", "G", "H", "I", "J", "K", "L", "M",
                  "N", "O", "P", "Q", "R", "S", "T", "U", "V", "W", "X", "Y", "Z">>
LowerLetters == <<"a", "b", "c", "d", "e", "f", "g", "h", "i", "j", "k", "l", "m",
                  "n", "o", "p", "q", "r", "s", "t", "u", "v", "w", "x", "y", "z">>

\* one code unit of s.toLowerCase()
LowerUnit(c) ==
    IF c \in {UpperLetters[i] : i \in 1..26}
    THEN LowerLetters[CHOOSE i \in 1..26 : UpperLetters[i] = c]
    ELSE c

\* s.toLowerCase()
ToLowerCase(s) == [i \in 1..Len(s) |-> LowerUnit(s[i])]

\* the concatenation of f[lo], ..., f[hi], each a sequence
RECURSIVE ConcatRange(_, _, _)
ConcatRange(f, lo, hi) ==
    IF lo > hi THEN <<>>
    ELSE IF lo = hi THEN f[lo]
    ELSE LET mid == (lo + hi) \div 2
         IN  ConcatRange(f, lo, mid) \o ConcatRange(f, mid + 1, hi)

\* parts.join(sep)
Join(parts, sep) ==
    ConcatRange([i \in 1..Len(parts) |-> IF i = 1 THEN parts[i] ELSE sep \o parts[i]],
                1, Len(parts))

\* raw.split(/\r?\n/): the pieces between line feeds, a carriage return right
\* before a line feed belonging to the separator
SplitLines(raw) ==
    LET nls   == {i \in 1..Len(raw) : raw[i] = NL}
        m     == Cardinality(nls)
        nth(k) == CHOOSE p \in nls : Cardinality({q \in nls : q <= p}) = k
        from(k) == IF k = 1 THEN 1 ELSE nth(k - 1) + 1
        upto(k) == IF k = m + 1 THEN Len(raw)
                   ELSE IF nth(k) - 1 >= from(k) /\ raw[nth(k) - 1] = CR
                        THEN nth(k) - 2
                        ELSE nth(k) - 1
    IN  [k \in 1..(m + 1) |-> SubSeq(raw, from(k), upto(k))]

-----------------------------------------------------------------------------
(* JSON.stringify of a string and of a ContextPack. *)

\* the escape JSON.stringify writes for one code unit (QuoteJSONString)
JsonEscape(c) ==
    CASE c = QUOTE -> <<BSL, QUOTE>>
      [] c = BSL   -> <<BSL, BSL>>
      [] c = NL    -> <<BSL, "n">>
      [] c = CR    -> <<BSL, "r">>
      [] c = TAB   -> <<BSL, "t">>
      [] c = SOH   -> <<BSL, "u", "0", "0", "0", "1">>
      [] OTHER     -> <<c>>

JsonString(s) ==
    <<QUOTE>> \o ConcatRange([i \in 1..Len(s) |-> JsonEscape(s[i])], 1, Len(s)) \o <<QUOTE>>

JsonArray(items) ==
    <<"[">> \o Join([i \in 1..Len(items) |-> JsonString(items[i])], <<",">>) \o <<"]">>

KeyError         == <<QUOTE, "e", "r", "r", "o", "r", QUOTE, ":">>
KeyTopFrames     == <<QUOTE, "t", "o", "p", "F", "r", "a", "m", "e", "s", QUOTE, ":">>
KeySuspectedFile == <<QUOTE, "s", "u", "s", "p", "e", "c", "t", "e", "d",
                      "F", "i", "l", "e", QUOTE, ":">>

\* JSON.stringify(context): keys in insertion order, an undefined suspectedFile
\* is left out. suspectedFile is <<>> when undefined and <<path>> otherwise.
StringifyContext(context) ==
    <<"{">> \o KeyError \o JsonString(context.error)
            \o <<",">> \o KeyTopFrames \o JsonArray(context.topFrames)
            \o (IF context.suspectedFile = <<>> THEN <<>>
                ELSE <<",">> \o KeySuspectedFile \o JsonString(context.suspectedFile[1]))
            \o <<"}">>

-----------------------------------------------------------------------------
(* lib/evidenceBuilder.ts *)

MAX_FRAMES == 5

MAX_CONTEXT_CHARS == 1200

ERROR_BUDGET == 280

\* the denylist without its first entry, 'node_modules'
VendorPatternsWithoutNodeModules == <<
    <<"i", "n", "t", "e", "r", "n", "a", "l", "/">>,
    <<"n", "o", "d", "e", ":", "i", "n", "t", "e", "r", "n", "a", "l">>,
    <<"n", "e", "x", "t", "/", "d", "i", "s", "t">>,
    <<"w", "e", "b", "p", "a", "c", "k">>,
    <<"c", "o", "r", "e", "-", "j", "s">>,
    <<"r", "e", "g", "e", "n", "e", "r", "a", "t", "o", "r", "-", "r", "u", "n", "t", "i", "m", "e">> >>

VENDOR_PATTERNS == <<
    <<"n", "o", "d", "e", "_", "m", "o", "d", "u", "l", "e", "s">>,
    <<"i", "n", "t", "e", "r", "n", "a", "l", "/">>,
    <<"n", "o", "d", "e", ":", "i", "n", "t", "e", "r", "n", "a", "l">>,
    <<"n", "e", "x", "t", "/", "d", "i", "s", "t">>,
    <<"w", "e", "b", "p", "a", "c", "k">>,
    <<"c", "o", "r", "e", "-", "j", "s">>,
    <<"r", "e", "g", "e", "n", "e", "r", "a", "t", "o", "r", "-", "r", "u", "n", "t", "i", "m", "e">> >>

PLACEHOLDER ==
    <<"U", "n", "k", "n", "o", "w", "n", "E", "r", "r", "o", "r", ":", " ", "N", "o", " ",
      "e", "r", "r", "o", "r", " ", "m", "e", "s", "s", "a", "g", "e", " ",
      "f", "o", "u", "n", "d">>

\* no line is a vendor frame: the denylist is not applied
isVendorFrameNever(line) == FALSE

isVendorFrame(line) ==
    \E k \in 1..Len(VENDOR_PATTERNS) : Includes(line, VENDOR_PATTERNS[k])

\* /error/.test(s): the i flag is missing
TestErrorCaseSensitive(s) == Includes(s, <<"e", "r", "r", "o", "r">>)

\* /error/i.test(s)
TestError(s) == Includes(ToLowerCase(s), <<"e", "r", "r", "o", "r">>)

\* s.filter(keep) for a predicate given as the set of kept indices
SelectIdx(s, keep) ==
    LET n == Cardinality(keep)
        nth(k) == CHOOSE i \in keep : Cardinality({j \in keep : j <= i}) = k
    IN  [k \in 1..n |-> s[nth(k)]]

\* `first ?? placeholder`, first being lines.find(l => l.trim()); a completion:
\* threw is TRUE when evaluating it raises a TypeError
FirstLineOrPlaceholderNoFallback(lines) ==
    LET nonEmpty == {i \in 1..Len(lines) : Trim(lines[i]) # <<>>}
    IN  IF nonEmpty = {} THEN [threw |-> TRUE, value |-> <<>>]
        ELSE [threw |-> FALSE, value |-> lines[Min(nonEmpty)]]

\* `lines[0] ?? placeholder`: the first line, blank or not
FirstLineOrPlaceholderFirstOnly(lines) ==
    [threw |-> FALSE, value |-> lines[1]]

FirstLineOrPlaceholder(lines) ==
    LET nonEmpty == {i \in 1..Len(lines) : Trim(lines[i]) # <<>>}
    IN  IF nonEmpty = {} THEN [threw |-> FALSE, value |-> PLACEHOLDER]
        ELSE [threw |-> FALSE, value |-> lines[Min(nonEmpty)]]

extractErrorMessage(lines) ==
    LET hits == {i \in 1..Len(lines) :
                    Trim(lines[i]) # <<>> /\ TestError(Trim(lines[i]))}
        first == FirstLineOrPlaceholder(lines)
    IN  IF hits # {}
        THEN [threw |-> FALSE, value |-> SliceTo(Trim(lines[Min(hits)]), ERROR_BUDGET)]
        ELSE IF first.threw THEN first
        ELSE [threw |-> FALSE, value |-> SliceTo(Trim(first.value), ERROR_BUDGET)]

\* frames.slice(0, MAX_FRAMES)
TakeFramesAll(frames) == frames

TakeFrames(frames) == SliceTo(frames, MAX_FRAMES)

\* the `at ` test is missing: every line that is not blank is a frame
extractStackFramesAnyLine(lines) ==
    LET kept   == SelectIdx(lines, {i \in 1..Len(lines) : Trim(lines[i]) # <<>>})
        frames == TakeFrames(kept)
    IN  [i \in 1..Len(frames) |-> Trim(frames[i])]

extractStackFrames(lines) ==
    LET rawIdx    == {i \in 1..Len(lines) : StartsWith(Trim(lines[i]), <<"a", "t", " ">>)}
        rawFrames == SelectIdx(lines, rawIdx)
        nonVendor == SelectIdx(lines, {i \in rawIdx : ~isVendorFrame(lines[i])})
        frames    == TakeFrames(IF Len(nonVendor) > 0 THEN nonVendor ELSE rawFrames)
    IN  [i \in 1..Len(frames) |-> Trim(frames[i])]

\* frame.match(/(\/[^:()]+\.(?:tsx?|jsx?))/), the quantifier greedy: the match
\* ends at the last "." it can
MatchSourcePathGreedy(frame) ==
    LET n       == Len(frame)
        stop(i) == Min({k \in (i + 1)..n : frame[k] \in {":", "(", ")"}} \cup {n + 1})
        dots(i) == {p \in (i + 2)..(stop(i) - 1) :
                       /\ frame[p] = "."
                       /\ p + 2 <= n
                       /\ frame[p + 1] \in {"t", "j"}
                       /\ frame[p + 2] = "s"}
        starts  == {i \in 1..n : frame[i] = "/" /\ dots(i) # {}}
    IN  IF starts = {} THEN <<>>
        ELSE LET i == Min(starts)
                 p == CHOOSE d \in dots(i) : \A o \in dots(i) : o <= d
                 e == IF p + 3 <= n /\ frame[p + 3] = "x" THEN p + 3 ELSE p + 2
             IN  <<SubSeq(frame, i, e)>>

\* frame.match(/(\/[^:()]+?\.(?:tsx?|jsx?))/): <<>> when there is no match,
\* <<match[1]>> otherwise. The match starts at the leftmost "/" from which it
\* can succeed; the lazy [^:()]+? ends at the first "." that at least one
\* allowed unit precedes and "ts" or "js" follows; a following "x" is taken.
MatchSourcePath(frame) ==
    LET n       == Len(frame)
        stop(i) == Min({k \in (i + 1)..n : frame[k] \in {":", "(", ")"}} \cup {n + 1})
        dots(i) == {p \in (i + 2)..(stop(i) - 1) :
                       /\ frame[p] = "."
                       /\ p + 2 <= n
                       /\ frame[p + 1] \in {"t", "j"}
                       /\ frame[p + 2] = "s"}
        starts  == {i \in 1..n : frame[i] = "/" /\ dots(i) # {}}
    IN  IF starts = {} THEN <<>>
        ELSE LET i == Min(starts)
                 p == Min(dots(i))
                 e == IF p + 3 <= n /\ frame[p + 3] = "x" THEN p + 3 ELSE p + 2
             IN  <<SubSeq(frame, i, e)>>

\* <<>> is undefined
guessSuspectedFile(frames) ==
    LET hits == {k \in 1..Len(frames) : MatchSourcePath(frames[k]) # <<>>}
    IN  IF hits = {} THEN <<>> ELSE MatchSourcePath(frames[Min(hits)])

\* the loop of buildContextPack, from its i-th iteration on: trimmedFrames
\* holds the frames pushed so far
RECURSIVE TrimLoop(_, _, _, _)
TrimLoop(context, topFrames, i, trimmedFrames) ==
    IF i > Len(topFrames) THEN context
    ELSE LET pushed == Append(trimmedFrames, topFrames[i])
             next   == [context EXCEPT !.topFrames = pushed]
         IN  IF Len(StringifyContext(next)) > MAX_CONTEXT_CHARS
             THEN [context EXCEPT !.topFrames = trimmedFrames]
             ELSE TrimLoop(next, topFrames, i + 1, pushed)

\* guessSuspectedFile(lines): the file is looked for in every line of the input
buildContextPackGuessingFromLines(rawText) ==
    LET lines         == SplitLines(rawText)
        error         == extractErrorMessage(lines)
        topFrames     == extractStackFrames(lines)
        suspectedFile == guessSuspectedFile(lines)
        context       == [error |-> error.value, topFrames |-> topFrames,
                          suspectedFile |-> suspectedFile]
    IN  IF error.threw THEN [threw |-> TRUE, value |-> <<>>]
        ELSE [threw |-> FALSE,
              value |-> IF Len(StringifyContext(context)) > MAX_CONTEXT_CHARS
                        THEN TrimLoop(context, topFrames, 1, <<>>)
                        ELSE context]

\* a completion: [threw, value]
buildContextPack(rawText) ==
    LET lines         == SplitLines(rawText)
        error         == extractErrorMessage(lines)
        topFrames     == extractStackFrames(lines)
        suspectedFile == guessSuspectedFile(topFrames)
        context       == [error |-> error.value, topFrames |-> topFrames,
                          suspectedFile |-> suspectedFile]
    IN  IF error.threw THEN [threw |-> TRUE, value |-> <<>>]
        ELSE [threw |-> FALSE,
              value |-> IF Len(StringifyContext(context)) > MAX_CONTEXT_CHARS
                        THEN TrimLoop(context, topFrames, 1, <<>>)
                        ELSE context]

\* the value of pack before the call
NoPack == [error |-> <<>>, topFrames |-> <<>>, suspectedFile |-> <<>>]

-----------------------------------------------------------------------------
(* Raw stack traces: up to one heading line, then frame lines. *)

MaxRun  == 6
MaxTail == 1

TypeErrorLine == <<"T", "y", "p", "e", "E", "r", "r", "o", "r", ":", " ", "x">>
BoomLine      == <<"b", "o", "o", "m">>
\* an error line of control characters, each escaped to 6 units by JSON
ControlLine   == <<"E", "R", "R", "O", "R", ":">> \o Rep(SOH, 290)
\* an error line longer than the error budget, with quotes in it
LongLine      == <<" ", "e", "r", "r", "o", "r", " ", QUOTE>> \o Rep("x", 300) \o <<QUOTE, " ">>
BlankLine     == <<" ", TAB>>

AppFrame      == <<" ", " ", " ", " ", "a", "t", " ", "f", "o", "o", " ", "(", "/", "a", "p",
                   "p", "/", "s", "r", "c", "/", "a", ".", "t", "s", ":", "1", ":", "1", ")">>
VendorFrame   == <<" ", " ", " ", " ", "a", "t", " ", "n", "o", "d", "e", "_", "m", "o", "d",
                   "u", "l", "e", "s", "/", "b", "a", "r", ".", "j", "s", ":", "2", ":", "2">>
AnonFrame     == <<"a", "t", " ", "<", "a", "n", "o", "n", "y", "m", "o", "u", "s", ">">>
\* a frame of backslashes, each escaped to 2 units by JSON: five of them do
\* not fit the budget
WideFrame     == <<" ", "a", "t", " ", "g", " ", "(", "/", "a", "p", "p", "/">> \o Rep(BSL, 140)
                   \o <<".", "t", "s", "x", ":", "9", ":", "9", ")">>
\* a frame whose path alone serializes to more than the budget
HugePathFrame == <<"a", "t", " ", "/">> \o Rep(SOH, 210) \o <<".", "j", "s", "x">>

\* a frame with one source path inside another
NestedFrame   == <<"a", "t", " ", "h", " ", "(", "/", "x", ".", "j", "s", "/", "y", ".", "t",
                   "s", "x", ":", "3", ")">>

\* the example of a trace: an error line, a frame of the application and a
\* vendor frame
ExampleTrace == Join(<<TypeErrorLine, AppFrame, VendorFrame>>, <<NL>>)

Heads == {<<>>, <<TypeErrorLine>>, <<BoomLine>>, <<BlankLine, ControlLine>>,
          <<LongLine>>, <<BlankLine>>, <<<<>>, BoomLine>>,
          <<BoomLine, TypeErrorLine, LongLine>>}

FrameLines == {AppFrame, VendorFrame, AnonFrame, WideFrame, HugePathFrame, NestedFrame}

TailLines == {AppFrame, VendorFrame}

\* heading lines and a run of one frame line, separated by line feeds, then a
\* tail of another frame line, each after a carriage return and a line feed;
\* and the example
Inputs ==
    {Join(h \o Rep(f1, n1), <<NL>>) \o ConcatRange(Rep(<<CR, NL>> \o f2, n2), 1, n2) :
        h \in Heads, f1 \in FrameLines, n1 \in 0..MaxRun,
        f2 \in TailLines, n2 \in 0..MaxTail}
    \cup {ExampleTrace}

-----------------------------------------------------------------------------
(* JavaScript values: [t |-> type, v |-> content]. A string's content is its *)
(* code units, an object's a function from its keys, an array's a sequence.  *)

Undefined == [t |-> "undefined", v |-> <<>>]
Null      == [t |-> "null", v |-> <<>>]
Str(s)    == [t |-> "string", v |-> s]
Bool(b)   == [t |-> "boolean", v |-> b]
Arr(a)    == [t |-> "array", v |-> a]
Obj(f)    == [t |-> "object", v |-> f]

NoFields == [x \in {} |-> Undefined]

\* value.key, for a value that is neither undefined nor null
Get(value, key) ==
    IF value.t = "object" /\ key \in DOMAIN value.v THEN value.v[key] ELSE Undefined

\* reading a property of undefined or of null raises a TypeError
Nullish(value) == value.t \in {"undefined", "null"}

\* the ContextPack object literal of buildContextPack as a value
PackValue(context) ==
    Obj([error         |-> Str(context.error),
         topFrames     |-> Arr([i \in 1..Len(context.topFrames) |-> Str(context.topFrames[i])]),
         suspectedFile |-> IF context.suspectedFile = <<>> THEN Undefined
                           ELSE Str(context.suspectedFile[1])])

-----------------------------------------------------------------------------
(* The text an LLM answers with, as tokens: JSON punctuation, keys, string   *)
(* and boolean literals, null, and words of prose.                           *)

LBrace   == [k |-> "{", v |-> <<>>]
RBrace   == [k |-> "}", v |-> <<>>]
Comma    == [k |-> ",", v |-> <<>>]
Prose    == [k |-> "prose", v |-> <<>>]
TrueLit  == [k |-> "true", v |-> <<>>]
FalseLit == [k |-> "false", v |-> <<>>]
NullLit  == [k |-> "null", v |-> <<>>]
Key(name)  == [k |-> "key", v |-> name]
StrLit(s)  == [k |-> "string", v |-> s]

ParseFail == [ok |-> FALSE, v |-> Undefined, next |-> 0]

\* JSON.parse's value and object-member productions, from token i on
RECURSIVE ParseValue(_, _)
RECURSIVE ParseMembers(_, _, _)
ParseValue(ts, i) ==
    IF i > Len(ts) THEN ParseFail
    ELSE CASE ts[i].k = "string" -> [ok |-> TRUE, v |-> Str(ts[i].v), next |-> i + 1]
           [] ts[i].k = "true"   -> [ok |-> TRUE, v |-> Bool(TRUE), next |-> i + 1]
           [] ts[i].k = "false"  -> [ok |-> TRUE, v |-> Bool(FALSE), next |-> i + 1]
           [] ts[i].k = "null"   -> [ok |-> TRUE, v |-> Null, next |-> i + 1]
           [] ts[i].k = "{"      ->
                IF i + 1 <= Len(ts) /\ ts[i + 1].k = "}"
                THEN [ok |-> TRUE, v |-> Obj(NoFields), next |-> i + 2]
                ELSE ParseMembers(ts, i + 1, NoFields)
           [] OTHER              -> ParseFail

ParseMembers(ts, i, acc) ==
    IF i > Len(ts) \/ ts[i].k # "key" THEN ParseFail
    ELSE LET val == ParseValue(ts, i + 1)
         IN  IF ~val.ok \/ val.next > Len(ts) THEN ParseFail
             ELSE LET fields == [x \in DOMAIN acc \cup {ts[i].v} |->
                                    IF x = ts[i].v THEN val.v ELSE acc[x]]
                  IN  CASE ts[val.next].k = "}" ->
                              [ok |-> TRUE, v |-> Obj(fields), next |-> val.next + 1]
                        [] ts[val.next].k = "," -> ParseMembers(ts, val.next + 1, fields)
                        [] OTHER -> ParseFail

\* JSON.parse(text): the whole text is one value, or a SyntaxError
JsonParse(ts) ==
    LET r == ParseValue(ts, 1)
    IN  IF r.ok /\ r.next = Len(ts) + 1 THEN [ok |-> TRUE, v |-> r.v]
        ELSE [ok |-> FALSE, v |-> Undefined]

-----------------------------------------------------------------------------
(* lib/aiAgent.ts *)

\* raw.indexOf('{') and raw.lastIndexOf('}'), 1-based, 0 for -1
IndexOfBrace(raw) ==
    IF \E i \in 1..Len(raw) : raw[i].k = "{"
    THEN Min({i \in 1..Len(raw) : raw[i].k = "{"}) ELSE 0

LastIndexOfBrace(raw) ==
    IF \E i \in 1..Len(raw) : raw[i].k = "}"
    THEN CHOOSE i \in 1..Len(raw) :
            raw[i].k = "}" /\ \A j \in (i + 1)..Len(raw) : raw[j].k # "}"
    ELSE 0

\* [ok, v]: the parsed value, cast to the expected type unchecked, or a
\* SyntaxError
parseJsonFromLlm(raw) ==
    LET firstBrace == IndexOfBrace(raw)
        lastBrace  == LastIndexOfBrace(raw)
        candidate  == IF firstBrace # 0 /\ lastBrace # 0
                      THEN SubSeq(raw, firstBrace, lastBrace)
                      ELSE raw
    IN  JsonParse(candidate)

-----------------------------------------------------------------------------
(* lib/execution.ts *)

TestsGreen   == <<"t", "e", "s", "t", "s", " ", "g", "r", "e", "e", "n">>
NoError      == <<"n", "o", " ", "e", "r", "r", "o", "r">>
StillFailing == <<"s", "t", "i", "l", "l", " ", "f", "a", "i", "l", "i", "n", "g">>
Throws       == <<"t", "h", "r", "o", "w", "s">>

StdoutHeader == <<
    <<"=", "=", "=", " ", "S", "a", "n", "d", "b", "o", "x", "e", "d", " ", "E", "x", "e",
      "c", "u", "t", "i", "o", "n", " ", "(", "M", "o", "c", "k", ")", " ", "=", "=", "=">>,
    <<>>,
    <<"T", "h", "i", "s", " ", "i", "s", " ", "a", " ", "d", "e", "t", "e", "r", "m", "i",
      "n", "i", "s", "t", "i", "c", ",", " ", "f", "a", "k", "e", " ", "e", "x", "e", "c",
      "u", "t", "i", "o", "n", " ", "e", "n", "v", "i", "r", "o", "n", "m", "e", "n", "t",
      ".">>,
    <<"N", "o", " ", "r", "e", "a", "l", " ", "u", "s", "e", "r", " ", "c", "o", "d", "e",
      " ", "o", "r", " ", "i", "n", "f", "r", "a", "s", "t", "r", "u", "c", "t", "u", "r",
      "e", " ", "i", "s", " ", "t", "o", "u", "c", "h", "e", "d", ".">>,
    <<>>,
    <<"-", "-", "-", " ", "R", "e", "p", "r", "o", " ", "S", "c", "r", "i", "p", "t", " ",
      "(", "h", "i", "g", "h", " ", "l", "e", "v", "e", "l", ")", " ", "-", "-", "-">> >>

NoReproSteps ==
    <<"(", "n", "o", " ", "r", "e", "p", "r", "o", " ", "s", "t", "e", "p", "s", " ", "p",
      "r", "o", "v", "i", "d", "e", "d", ")">>

StdoutSuccess == <<
    <<"<U+2705>", " ", "A", "l", "l", " ", "r", "e", "l", "e", "v", "a", "n", "t", " ",
      "s", "t", "e", "p", "s", " ", "c", "o", "m", "p", "l", "e", "t", "e", "d", " ", "w",
      "i", "t", "h", "o", "u", "t", " ", "a", "n", "y", " ", "s", "i", "m", "u", "l", "a",
      "t", "e", "d", " ", "e", "r", "r", "o", "r", "s", ".">>,
    <<"<U+2705>", " ", "N", "o", " ", "e", "r", "r", "o", "r", " ", "m", "a", "t", "c",
      "h", "i", "n", "g", " ", "t", "h", "e", " ", "o", "r", "i", "g", "i", "n", "a", "l",
      " ", "C", "o", "n", "t", "e", "x", "t", "P", "a", "c", "k", " ", "w", "a", "s", " ",
      "r", "e", "p", "r", "o", "d", "u", "c", "e", "d", ".">> >>

StdoutFailure == <<
    <<"<U+26A0>", "<U+FE0F>", " ", "R", "e", "p", "r", "o", " ", "a", "p", "p", "e", "a",
      "r", "s", " ", "t", "o", " ", "s", "t", "i", "l", "l", " ", "e", "x", "p", "o", "s",
      "e", " ", "i", "s", "s", "u", "e", "s", " ", "o", "r", " ", "c", "o", "u", "l", "d",
      " ", "n", "o", "t", " ", "b", "e", " ", "v", "a", "l", "i", "d", "a", "t", "e", "d",
      ".">>,
    <<"<U+26A0>", "<U+FE0F>", " ", "E", "i", "t", "h", "e", "r", " ", "t", "h", "e", " ",
      "r", "e", "p", "r", "o", " ", "i", "s", " ", "i", "n", "c", "o", "m", "p", "l", "e",
      "t", "e", " ", "o", "r", " ", "t", "h", "e", " ", "p", "r", "o", "p", "o", "s", "e",
      "d", " ", "f", "i", "x", " ", "d", "o", "e", "s", " ", "n", "o", "t", " ", "f", "u",
      "l", "l", "y", " ", "a", "d", "d", "r", "e", "s", "s", " ", "t", "h", "e", " ", "b",
      "u", "g", ".">> >>

OutcomeHeader ==
    <<"-", "-", "-", " ", "O", "u", "t", "c", "o", "m", "e", " ", "-", "-", "-">>

\* the default branch assumes success
SandboxSuccessByDefault(normalized) ==
    IF Includes(normalized, TestsGreen) \/ Includes(normalized, NoError) THEN TRUE
    ELSE IF Includes(normalized, StillFailing) \/ Includes(normalized, Throws) THEN FALSE
    ELSE TRUE

\* the success flag runInSandbox computes from the lower-cased steps
SandboxSuccess(normalized) ==
    IF Includes(normalized, TestsGreen) \/ Includes(normalized, NoError) THEN TRUE
    ELSE IF Includes(normalized, StillFailing) \/ Includes(normalized, Throws) THEN FALSE
    ELSE FALSE

\* blank steps are rejected: `if (!reproSteps.trim()) throw ...`
runInSandboxRejectingBlank(reproSteps) ==
    IF reproSteps.t # "string" \/ Trim(reproSteps.v) = <<>>
    THEN [threw |-> TRUE, value |-> Undefined]
    ELSE [threw |-> FALSE,
          value |-> Obj([success |-> Bool(SandboxSuccess(ToLowerCase(reproSteps.v))),
                         stdout  |-> Str(Trim(reproSteps.v))])]

\* a completion [threw, value]: reproSteps.toLowerCase() raises a TypeError
\* when reproSteps is not a string
runInSandbox(reproSteps) ==
    IF reproSteps.t # "string" THEN [threw |-> TRUE, value |-> Undefined]
    ELSE LET normalized  == ToLowerCase(reproSteps.v)
             success     == SandboxSuccess(normalized)
             stdoutLines ==
                 StdoutHeader
                 \o <<IF Trim(reproSteps.v) # <<>> THEN Trim(reproSteps.v) ELSE NoReproSteps>>
                 \o <<<<>>, OutcomeHeader>>
                 \o (IF success THEN StdoutSuccess ELSE StdoutFailure)
         IN  [threw |-> FALSE,
              value |-> Obj([success |-> Bool(success),
                             stdout  |-> Str(Join(stdoutLines, <<NL>>))])]

-----------------------------------------------------------------------------
(* lib/llmClient.ts *)

Error(name, message) == [name |-> name, message |-> message]

\* what the HTTP exchange of one chat call comes to: fetch rejects, the status
\* is not ok, the body is not JSON, the body has no string content, or the
\* content
ChatOutcomes(contents) ==
    {[kind |-> k, content |-> <<>>] : k \in {"network", "status", "body", "nocontent"}}
        \cup {[kind |-> "content", content |-> c] : c \in contents}

\* OpenAiLikeClient.chat as a completion [threw, error, value]
chat(outcome) ==
    CASE outcome.kind = "network" ->
            [threw |-> TRUE, error |-> Error("TypeError", "fetch failed"), value |-> <<>>]
      [] outcome.kind = "status" ->
            [threw |-> TRUE, error |-> Error("Error", "LLM error"), value |-> <<>>]
      [] outcome.kind = "body" ->
            [threw |-> TRUE, error |-> Error("SyntaxError", "res.json"), value |-> <<>>]
      [] outcome.kind = "nocontent" ->
            [threw |-> TRUE, error |-> Error("Error", "LLM response missing content"),
             value |-> <<>>]
      [] OTHER ->
            [threw |-> FALSE, error |-> Error("", ""), value |-> outcome.content]

\* diagnoseAndPlan and verifyFixWithLlm after their chat call: the content is
\* parsed and returned as it is
ParseReply(reply) ==
    IF reply.threw THEN [threw |-> TRUE, error |-> reply.error, value |-> Undefined]
    ELSE LET parsed == parseJsonFromLlm(reply.value)
         IN  IF parsed.ok THEN [threw |-> FALSE, error |-> Error("", ""), value |-> parsed.v]
             ELSE [threw |-> TRUE, error |-> Error("SyntaxError", "JSON.parse"),
                   value |-> Undefined]

diagnoseAndPlan(outcome) == ParseReply(chat(outcome))

verifyFixWithLlm(outcome) == ParseReply(chat(outcome))

-----------------------------------------------------------------------------
(* What the LLM may answer. *)

RootCause    == <<"n", "u", "l", "l", " ", "r", "e", "f">>
Impact       == <<"c", "r", "a", "s", "h">>
FixSnippet   == <<"x", "?", ".", "y">>
Explanation  == <<"o", "k">>
StepsGreen   == <<" ", "R", "u", "n", ";", " ", "T", "e", "s", "t", "s", " ", "G", "r", "e",
                  "e", "n", " ">>
StepsThrows  == <<"c", "l", "i", "c", "k", " ", "t", "h", "r", "o", "w", "s">>
StepsVague   == <<"o", "p", "e", "n", " ", "p", "a", "g", "e">>

DiagnosisTokens ==
    <<Key("diagnosis"), LBrace, Key("rootCause"), StrLit(RootCause), Comma,
      Key("impactSummary"), StrLit(Impact), RBrace>>

PlanTokens(steps) ==
    <<Key("reproAndFix"), LBrace, Key("reproSteps"), StrLit(steps), Comma,
      Key("fixSnippet"), StrLit(FixSnippet), RBrace>>

DiagnoseContents ==
    { <<LBrace>> \o DiagnosisTokens \o <<Comma>> \o PlanTokens(StepsGreen) \o <<RBrace>>,
      <<Prose, LBrace>> \o DiagnosisTokens \o <<Comma>> \o PlanTokens(StepsThrows)
          \o <<RBrace, Prose>>,
      <<LBrace>> \o DiagnosisTokens \o <<Comma>> \o PlanTokens(StepsVague) \o <<RBrace>>,
      <<LBrace, RBrace>>,
      <<LBrace>> \o PlanTokens(StepsGreen) \o <<RBrace>>,
      <<LBrace>> \o DiagnosisTokens \o <<Comma, Key("reproAndFix"), LBrace, RBrace, RBrace>>,
      <<Prose, Prose>>,
      <<NullLit>>,
      <<RBrace, Prose, LBrace>> }

VerifyContents ==
    { <<LBrace, Key("fixWorked"), TrueLit, Comma, Key("explanation"), StrLit(Explanation),
        RBrace>>,
      <<Prose, LBrace, Key("fixWorked"), FalseLit, Comma, Key("explanation"),
        StrLit(Explanation), RBrace, Prose>>,
      <<LBrace, RBrace>>,
      <<LBrace, Key("fixWorked"), StrLit(Explanation), RBrace>>,
      <<Prose>> }

RunInputs == {TypeErrorLine, ExampleTrace, Join(<<BoomLine, AnonFrame>>, <<CR, NL>>)}

-----------------------------------------------------------------------------
(* lib/orchestrator.ts: runQaAgent *)

States == {"INGEST", "CURATE_CONTEXT", "DIAGNOSE", "GENERATE_REPRO", "EXECUTE", "VERIFY",
           "DONE"}

NotDoneError == Error("Error", "Agent did not reach DONE state")

\* the result is built anew and the execution record left out
RunResultWithoutExecution ==
    [contextPack |-> contextPack, diagnosis |-> diagnosis, reproAndFix |-> reproAndFix,
     execution |-> Undefined, verification |-> verification]

RunResult ==
    [contextPack |-> contextPack, diagnosis |-> diagnosis, reproAndFix |-> reproAndFix,
     execution |-> execution, verification |-> verification]

\* the exception is caught and what there is of the result is returned
ReturnPartial(e) ==
    /\ pc' = "returned"
    /\ thrown' = thrown
    /\ result' = <<RunResult>>

\* the exception is caught and another one thrown in its place
ThrowGeneric(e) ==
    /\ pc' = "threw"
    /\ thrown' = <<Error("Error", "Agent run failed")>>
    /\ result' = result

\* the failure of an awaited call is caught and the call made again
RetryAfterFailure(e) ==
    /\ pc' = CASE pc = "awaitDiagnose" -> "diagnose"
                [] pc = "awaitExecute"  -> "execute"
                [] pc = "awaitVerify"   -> "verify"
                [] OTHER                -> "threw"
    /\ thrown' = IF pc \in {"awaitDiagnose", "awaitExecute", "awaitVerify"} THEN thrown
                  ELSE <<e>>
    /\ result' = result

\* an exception leaves runQaAgent: nothing in it catches
Throw(e) ==
    /\ pc' = "threw"
    /\ thrown' = <<e>>
    /\ result' = result

\* the run goes on at the next statement
Goto(next) ==
    /\ pc' = next
    /\ UNCHANGED <<thrown, result>>

\* the stage each block of runQaAgent assigns
StageAfterIngest        == "CURATE_CONTEXT"
StageAfterCurate        == "DIAGNOSE"
StageAfterDiagnose      == "GENERATE_REPRO"
StageAfterGenerateReproSkipping == "VERIFY"
StageAfterGenerateRepro == "EXECUTE"
StageAfterExecuteSkipping == "DONE"
StageAfterExecute       == "VERIFY"
StageAfterVerifyStuck   == "VERIFY"
StageAfterVerify        == "DONE"

\* const llm = new OpenAiLikeClient()
NewClient ==
    /\ pc = "newClient"
    /\ IF apiKey THEN Goto("ingest")
       ELSE Throw(Error("Error", "Missing OPENAI_API_KEY for LLM client"))
    /\ UNCHANGED <<rawStackTrace, apiKey, state, records, calls, failures>>

Ingest ==
    /\ pc = "ingest"
    /\ state' = IF state = "INGEST" THEN StageAfterIngest ELSE state
    /\ Goto("curate")
    /\ UNCHANGED <<rawStackTrace, apiKey, records, calls, failures>>

CurateContext ==
    /\ pc = "curate"
    /\ IF state = "CURATE_CONTEXT"
       THEN LET built == buildContextPack(rawStackTrace)
            IN  IF built.threw
                THEN /\ Throw(Error("TypeError", "Cannot read properties of undefined"))
                     /\ UNCHANGED <<state, contextPack>>
                ELSE /\ contextPack' = PackValue(built.value)
                     /\ state' = StageAfterCurate
                     /\ Goto("diagnose")
       ELSE Goto("diagnose") /\ UNCHANGED <<state, contextPack>>
    /\ UNCHANGED <<rawStackTrace, apiKey, diagnosis, reproAndFix, execution, verification,
                   calls, failures>>

\* diagnoseAndPlan is handed the raw stack trace along with the record
DiagnoseCallWithRaw ==
    /\ pc = "diagnose"
    /\ IF state = "DIAGNOSE"
       THEN /\ calls' = Append(calls, [op |-> "diagnoseAndPlan",
                                       args |-> <<contextPack, Str(rawStackTrace)>>])
            /\ Goto("awaitDiagnose")
       ELSE Goto("generate") /\ UNCHANGED calls
    /\ UNCHANGED <<rawStackTrace, apiKey, state, records, failures>>

\* diagnoseAndPlan(contextPack, llm) is called and awaited
DiagnoseCall ==
    /\ pc = "diagnose"
    /\ IF state = "DIAGNOSE"
       THEN /\ calls' = Append(calls, [op |-> "diagnoseAndPlan", args |-> <<contextPack>>])
            /\ Goto("awaitDiagnose")
       ELSE Goto("generate") /\ UNCHANGED calls
    /\ UNCHANGED <<rawStackTrace, apiKey, state, records, failures>>

\* the awaited promise settles; the result is destructured
DiagnoseSettle ==
    /\ pc = "awaitDiagnose"
    /\ \E outcome \in ChatOutcomes(DiagnoseContents) :
          LET r == diagnoseAndPlan(outcome)
          IN  IF r.threw
              THEN /\ Throw(r.error)
                   /\ failures' = Append(failures, [op |-> "diagnoseAndPlan", error |-> r.error])
                   /\ UNCHANGED <<state, diagnosis, reproAndFix>>
              ELSE IF Nullish(r.value)
              THEN /\ Throw(Error("TypeError", "Cannot destructure"))
                   /\ UNCHANGED <<state, diagnosis, reproAndFix, failures>>
              ELSE /\ diagnosis' = Get(r.value, "diagnosis")
                   /\ reproAndFix' = Get(r.value, "reproAndFix")
                   /\ state' = StageAfterDiagnose
                   /\ Goto("generate")
                   /\ UNCHANGED failures
    /\ UNCHANGED <<rawStackTrace, apiKey, contextPack, execution, verification, calls>>

GenerateRepro ==
    /\ pc = "generate"
    /\ state' = IF state = "GENERATE_REPRO" THEN StageAfterGenerateRepro ELSE state
    /\ Goto("execute")
    /\ UNCHANGED <<rawStackTrace, apiKey, records, calls, failures>>

\* runInSandbox(reproAndFix.reproSteps) is called and awaited
ExecuteCall ==
    /\ pc = "execute"
    /\ IF state = "EXECUTE"
       THEN IF Nullish(reproAndFix)
            THEN /\ Throw(Error("TypeError", "Cannot read properties of undefined"))
                 /\ UNCHANGED calls
            ELSE /\ calls' = Append(calls, [op |-> "runInSandbox",
                                            args |-> <<Get(reproAndFix, "reproSteps")>>])
                 /\ Goto("awaitExecute")
       ELSE Goto("verify") /\ UNCHANGED calls
    /\ UNCHANGED <<rawStackTrace, apiKey, state, records, failures>>

\* `if (!execution.success) throw new Error(...)` after the assignment
ExecuteSettleAbortingOnFailure ==
    /\ pc = "awaitExecute"
    /\ LET r == runInSandbox(calls[Len(calls)].args[1])
           e == Error("TypeError", "reproSteps.toLowerCase is not a function")
       IN  IF r.threw
           THEN /\ Throw(e)
                /\ failures' = Append(failures, [op |-> "runInSandbox", error |-> e])
                /\ UNCHANGED <<state, execution>>
           ELSE /\ execution' = r.value
                /\ IF Get(r.value, "success") = Bool(TRUE)
                   THEN state' = StageAfterExecute /\ Goto("verify")
                   ELSE state' = state /\ Throw(Error("Error", "Execution failed"))
                /\ UNCHANGED failures
    /\ UNCHANGED <<rawStackTrace, apiKey, contextPack, diagnosis, reproAndFix, verification,
                   calls>>

ExecuteSettle ==
    /\ pc = "awaitExecute"
    /\ LET r == runInSandbox(calls[Len(calls)].args[1])
           e == Error("TypeError", "reproSteps.toLowerCase is not a function")
       IN  IF r.threw
           THEN /\ Throw(e)
                /\ failures' = Append(failures, [op |-> "runInSandbox", error |-> e])
                /\ UNCHANGED <<state, execution>>
           ELSE /\ execution' = r.value
                /\ state' = StageAfterExecute
                /\ Goto("verify")
                /\ UNCHANGED failures
    /\ UNCHANGED <<rawStackTrace, apiKey, contextPack, diagnosis, reproAndFix, verification,
                   calls>>

\* verifyFixWithLlm(contextPack, diagnosis, reproAndFix, execution, llm) is
\* called and awaited
VerifyCall ==
    /\ pc = "verify"
    /\ IF state = "VERIFY"
       THEN /\ calls' = Append(calls, [op |-> "verifyFixWithLlm",
                                       args |-> <<contextPack, diagnosis, reproAndFix,
                                                  execution>>])
            /\ Goto("awaitVerify")
       ELSE Goto("check") /\ UNCHANGED calls
    /\ UNCHANGED <<rawStackTrace, apiKey, state, records, failures>>

VerifySettle ==
    /\ pc = "awaitVerify"
    /\ \E outcome \in ChatOutcomes(VerifyContents) :
          LET r == verifyFixWithLlm(outcome)
          IN  IF r.threw
              THEN /\ Throw(r.error)
                   /\ failures' = Append(failures, [op |-> "verifyFixWithLlm", error |-> r.error])
                   /\ UNCHANGED <<state, verification>>
              ELSE /\ verification' = r.value
                   /\ state' = StageAfterVerify
                   /\ Goto("check")
                   /\ UNCHANGED failures
    /\ UNCHANGED <<rawStackTrace, apiKey, contextPack, diagnosis, reproAndFix, execution,
                   calls>>

\* if (state !== 'DONE') throw ...; return {...}
CheckDone ==
    /\ pc = "check"
    /\ IF state # "DONE" THEN Throw(NotDoneError)
       ELSE /\ pc' = "returned"
            /\ result' = <<RunResult>>
            /\ UNCHANGED thrown
    /\ UNCHANGED <<rawStackTrace, apiKey, state, records, calls, failures>>

RunIdle ==
    /\ rawStackTrace = <<>>
    /\ apiKey = TRUE
    /\ state = "INGEST"
    /\ pc = "idle"
    /\ contextPack = Undefined
    /\ diagnosis = Undefined
    /\ reproAndFix = Undefined
    /\ execution = Undefined
    /\ verification = Undefined
    /\ calls = <<>>
    /\ failures = <<>>
    /\ thrown = <<>>
    /\ result = <<>>

PackIdle ==
    /\ rawInput = <<>>
    /\ packPc = "idle"
    /\ pack = NoPack

SandboxIdle ==
    /\ sandboxInput = <<>>
    /\ sandboxPc = "idle"
    /\ sandboxOut = Undefined

SdkIdle ==
    /\ sdkKey = TRUE
    /\ sdkSteps = <<>>
    /\ sdkName = <<>>
    /\ sdkPc = "idle"
    /\ sdkCommand = <<>>
    /\ sdkSandbox = <<>>
    /\ sdkLog = <<>>
    /\ sdkPending = <<>>
    /\ sdkOut = <<>>

WsIdle ==
    /\ wsPc = "idle"
    /\ wsPath = 1
    /\ wsBody = 1
    /\ wsFound404 = FALSE
    /\ wsLastError = <<>>
    /\ wsRequests = <<>>
    /\ wsWorkspace = <<>>
    /\ wsPolls = 0
    /\ wsOut = <<>>

ExIdle ==
    /\ exPc = "idle"
    /\ exPath = 1
    /\ exRequests = <<>>
    /\ exOut = <<>>

RouteIdle ==
    /\ request = [parsed |-> FALSE, body |-> Undefined]
    /\ routePc = "idle"
    /\ response = <<>>
    /\ runsStarted = 0

\* the clients of Daytona and the API route are not in use
ApiIdle ==
    /\ SdkIdle
    /\ WsIdle
    /\ ExIdle
    /\ RouteIdle

Init ==
    /\ PackIdle
    /\ SandboxIdle
    /\ ApiIdle
    /\ rawStackTrace \in RunInputs
    /\ apiKey \in BOOLEAN
    /\ state = "INGEST"
    /\ pc = "newClient"
    /\ contextPack = Undefined
    /\ diagnosis = Undefined
    /\ reproAndFix = Undefined
    /\ execution = Undefined
    /\ verification = Undefined
    /\ calls = <<>>
    /\ failures = <<>>
    /\ thrown = <<>>
    /\ result = <<>>

Next ==
    \/ (NewClient /\ UNCHANGED outsideRun)
    \/ (Ingest /\ UNCHANGED outsideRun)
    \/ (CurateContext /\ UNCHANGED outsideRun)
    \/ (DiagnoseCall /\ UNCHANGED outsideRun)
    \/ (DiagnoseSettle /\ UNCHANGED outsideRun)
    \/ (GenerateRepro /\ UNCHANGED outsideRun)
    \/ (ExecuteCall /\ UNCHANGED outsideRun)
    \/ (ExecuteSettle /\ UNCHANGED outsideRun)
    \/ (VerifyCall /\ UNCHANGED outsideRun)
    \/ (VerifySettle /\ UNCHANGED outsideRun)
    \/ (CheckDone /\ UNCHANGED outsideRun)

Spec == Init /\ [][Next]_vars

\* every awaited call settles, and what can run does. CurateContext is
\* enabled exactly when pc = "curate" and every step of it leaves that pc, so
\* its weak fairness is that pc is again and again not "curate".
SpecFair ==
    /\ Spec
    /\ WF_vars(NewClient /\ UNCHANGED outsideRun)
    /\ WF_vars(Ingest /\ UNCHANGED outsideRun)
    /\ []<>(pc # "curate")
    /\ WF_vars(DiagnoseCall /\ UNCHANGED outsideRun)
    /\ WF_vars(DiagnoseSettle /\ UNCHANGED outsideRun)
    /\ WF_vars(GenerateRepro /\ UNCHANGED outsideRun)
    /\ WF_vars(ExecuteCall /\ UNCHANGED outsideRun)
    /\ WF_vars(ExecuteSettle /\ UNCHANGED outsideRun)
    /\ WF_vars(VerifyCall /\ UNCHANGED outsideRun)
    /\ WF_vars(VerifySettle /\ UNCHANGED outsideRun)
    /\ WF_vars(CheckDone /\ UNCHANGED outsideRun)

\* what runs without waiting for anything outside runQaAgent does run: the
\* statements up to the next await, and those after the last one
SpecLive ==
    /\ Spec
    /\ WF_vars(VerifyCall /\ UNCHANGED outsideRun)
    /\ WF_vars(CheckDone /\ UNCHANGED outsideRun)

-----------------------------------------------------------------------------
(* A direct call of buildContextPack. *)

InitPack ==
    /\ rawInput \in Inputs
    /\ packPc = "call"
    /\ pack = NoPack
    /\ RunIdle
    /\ SandboxIdle
    /\ ApiIdle

CallBuildContextPack ==
    /\ packPc = "call"
    /\ LET r == buildContextPack(rawInput)
       IN  /\ packPc' = IF r.threw THEN "threw" ELSE "returned"
           /\ pack' = IF r.threw THEN NoPack ELSE r.value
    /\ UNCHANGED rawInput
    /\ UNCHANGED outsidePack

NextPack == CallBuildContextPack

SpecPack == InitPack /\ [][NextPack]_vars

-----------------------------------------------------------------------------
(* A direct call of runInSandbox. *)

MaxPhrases == 2

\* what repro steps are made of: the words runInSandbox looks for, in lower,
\* upper and mixed case, other words and white space
Phrases == {TestsGreen, NoError, StillFailing, Throws,
            <<"T", "e", "s", "t", "s", " ", "G", "r", "e", "e", "n">>,
            <<"N", "O", " ", "E", "R", "R", "O", "R">>,
            <<"o", "p", "e", "n", " ", "p", "a", "g", "e", ";">>,
            <<" ">>, <<NL, TAB>>}

\* the strings of up to MaxPhrases phrases, the empty string among them
StepInputs ==
    {ConcatRange(ps, 1, Len(ps)) : ps \in UNION {[1..n -> Phrases] : n \in 0..MaxPhrases}}

InitSandbox ==
    /\ sandboxInput \in StepInputs
    /\ sandboxPc = "call"
    /\ sandboxOut = Undefined
    /\ RunIdle
    /\ PackIdle
    /\ ApiIdle

CallRunInSandbox ==
    /\ sandboxPc = "call"
    /\ LET r == runInSandbox(Str(sandboxInput))
       IN  /\ sandboxPc' = IF r.threw THEN "threw" ELSE "returned"
           /\ sandboxOut' = r.value
    /\ UNCHANGED sandboxInput
    /\ UNCHANGED outsideSandbox

NextSandbox == CallRunInSandbox

SpecSandbox == InitSandbox /\ [][NextSandbox]_vars

-----------------------------------------------------------------------------
(* lib/daytona.ts: createSandboxAndExecute over the Daytona SDK *)

NpmPrefix ==
    <<"n", "p", "m", " ">>
YarnPrefix ==
    <<"y", "a", "r", "n", " ">>
PnpmPrefix ==
    <<"p", "n", "p", "m", " ">>
NodePrefix ==
    <<"n", "o", "d", "e", " ">>
PythonPrefix ==
    <<"p", "y", "t", "h", "o", "n", " ">>
GoRunPrefix ==
    <<"g", "o", " ", "r", "u", "n", " ">>
TestWord ==
    <<"t", "e", "s", "t">>
NpmWord ==
    <<"n", "p", "m">>
YarnWord ==
    <<"y", "a", "r", "n">>
NpmTest ==
    <<"n", "p", "m", " ", "t", "e", "s", "t">>
DefaultCommand ==
    <<"e", "c", "h", "o", " ", QUOTE, "R", "e", "p", "r", "o", " ", "s", "t", "e", "p",
      "s", " ", "e", "x", "e", "c", "u", "t", "e", "d", " ", "i", "n", " ", "s", "a", "n",
      "d", "b", "o", "x", QUOTE, " ", "&", "&", " ", "p", "w", "d", " ", "&", "&", " ",
      "l", "s", " ", "-", "l", "a">>
SandboxFailurePrefix ==
    <<"F", "a", "i", "l", "e", "d", " ", "t", "o", " ", "c", "r", "e", "a", "t", "e",
      " ", "o", "r", " ", "e", "x", "e", "c", "u", "t", "e", " ", "i", "n", " ", "D", "a",
      "y", "t", "o", "n", "a", " ", "s", "a", "n", "d", "b", "o", "x", ":", " ">>
DaytonaKeyMissing ==
    <<"D", "A", "Y", "T", "O", "N", "A", "_", "A", "P", "I", "_", "K", "E", "Y", " ",
      "n", "o", "t", " ", "c", "o", "n", "f", "i", "g", "u", "r", "e", "d", ".", " ", "C",
      "h", "e", "c", "k", " ", ".", "e", "n", "v", ".", "l", "o", "c", "a", "l", " ", "a",
      "n", "d", " ", "r", "e", "s", "t", "a", "r", "t", " ", "t", "h", "e", " ", "s", "e",
      "r", "v", "e", "r", ".">>
DefaultSandboxName ==
    <<"q", "a", "-", "r", "e", "p", "r", "o", "-", "<", "n", "o", "w", ">">>

\* reproSteps.split('\n'): the pieces between line feeds
SplitNL(raw) ==
    LET nls   == {i \in 1..Len(raw) : raw[i] = NL}
        m     == Cardinality(nls)
        nth(k) == CHOOSE p \in nls : Cardinality({q \in nls : q <= p}) = k
        from(k) == IF k = 1 THEN 1 ELSE nth(k - 1) + 1
        upto(k) == IF k = m + 1 THEN Len(raw) ELSE nth(k) - 1
    IN  [k \in 1..(m + 1) |-> SubSeq(raw, from(k), upto(k))]

\* the elements of a sequence that are not the empty string, in order
RECURSIVE NonEmpty(_)
NonEmpty(ls) ==
    IF ls = <<>> THEN <<>>
    ELSE IF Head(ls) = <<>> THEN NonEmpty(Tail(ls))
    ELSE <<Head(ls)>> \o NonEmpty(Tail(ls))

\* line.replace(/^[-*]\s*/, ''): a leading bullet and the white space after it
StripBullet(line) ==
    IF line # <<>> /\ line[1] \in {"-", "*"}
    THEN SubSeq(line, 2 + LeadingSpace(line, 2), Len(line))
    ELSE line

\* the loop of reproStepsToCommand: the command of the first line that has one
RECURSIVE CommandOfLines(_)
CommandOfLines(ls) ==
    IF ls = <<>> THEN DefaultCommand
    ELSE LET line == Head(ls)
         IN  IF \/ StartsWith(line, NpmPrefix)
                \/ StartsWith(line, YarnPrefix)
                \/ StartsWith(line, PnpmPrefix)
             THEN StripBullet(line)
             ELSE IF \/ StartsWith(line, NodePrefix)
                     \/ StartsWith(line, PythonPrefix)
                     \/ StartsWith(line, GoRunPrefix)
             THEN StripBullet(line)
             ELSE IF /\ Includes(line, TestWord)
                     /\ (Includes(line, NpmWord) \/ Includes(line, YarnWord))
             THEN NpmTest
             ELSE CommandOfLines(Tail(ls))

reproStepsToCommand(reproSteps) ==
    LET split == SplitNL(reproSteps)
    IN  CommandOfLines(NonEmpty([i \in 1..Len(split) |-> Trim(split[i])]))

\* does the command need a package.json
NeedsPackageJson(command) ==
    \/ Includes(command, NpmPrefix)
    \/ Includes(command, YarnPrefix)
    \/ Includes(command, PnpmPrefix)

\* what an SDK call can reject with
SdkErrors == {<<"t", "i", "m", "e", "o", "u", "t">>}

\* what sandbox.process.executeCommand can resolve to: an exit code, and no
\* result, the empty one or some output
ExecuteResponses ==
    {[exitCode |-> c, result |-> r] : c \in {0, 1}, r \in {<<>>, <<"">>, <<"ok">>}}

\* the object createSandboxAndExecute returns
SandboxResult(executed, command, sandbox, name) ==
    [success     |-> executed.exitCode = 0,
     stdout      |-> IF executed.result = <<>> \/ executed.result[1] = ""
                     THEN "" ELSE executed.result[1],
     stderr      |-> "",
     exitCode    |-> executed.exitCode,
     command     |-> command,
     sandboxId   |-> sandbox.id,
     sandboxName |-> IF sandbox.name # <<>> THEN sandbox.name ELSE name]

\* a completion of a block: a value to return or a message to throw
Returning(value) == [threw |-> FALSE, value |-> value]
Throwing(message) == [threw |-> TRUE, value |-> message]

\* the catch of the outer try (line 90-92)
WrapSandboxFailure(message) == Throwing(SandboxFailurePrefix \o message)

\* sandboxName || `qa-repro-${Date.now()}`
SandboxName == IF sdkName # <<>> THEN sdkName ELSE DefaultSandboxName

\* lines 39-43: the client and the command, outside the try
SdkStart ==
    /\ sdkPc = "start"
    /\ IF ~sdkKey
       THEN /\ sdkPc' = "threw"
            /\ sdkOut' = <<Throwing(DaytonaKeyMissing)>>
            /\ UNCHANGED sdkCommand
       ELSE /\ sdkPc' = "create"
            /\ sdkCommand' = reproStepsToCommand(sdkSteps)
            /\ UNCHANGED sdkOut
    /\ UNCHANGED <<sdkKey, sdkSteps, sdkName, sdkSandbox, sdkLog, sdkPending>>

\* lines 47-52: daytona.create settles
SdkCreate ==
    /\ sdkPc = "create"
    /\ \/ \E e \in SdkErrors :
            /\ sdkLog' = Append(sdkLog, [op |-> "create", ok |-> FALSE])
            /\ sdkPc' = "threw"
            /\ sdkOut' = <<WrapSandboxFailure(e)>>
            /\ UNCHANGED sdkSandbox
       \/ \E n \in {<<>>, SandboxName} :
            /\ sdkLog' = Append(sdkLog, [op |-> "create", ok |-> TRUE])
            /\ sdkSandbox' = <<[id |-> <<"s", "1">>, name |-> n]>>
            /\ sdkPc' = IF NeedsPackageJson(sdkCommand) THEN "check" ELSE "run"
            /\ UNCHANGED sdkOut
    /\ UNCHANGED <<sdkKey, sdkSteps, sdkName, sdkCommand, sdkPending>>

\* lines 58-60: the test for package.json settles
SdkCheck ==
    /\ sdkPc = "check"
    /\ \E ok \in BOOLEAN :
        /\ sdkLog' = Append(sdkLog, [op |-> "check", ok |-> ok])
        /\ sdkPc' = IF ok THEN "run" ELSE "init"
    /\ UNCHANGED <<sdkKey, sdkSteps, sdkName, sdkCommand, sdkSandbox, sdkPending, sdkOut>>

\* lines 60-65: writing a package.json settles; its failure leaves the inner try
SdkInit ==
    /\ sdkPc = "init"
    /\ \/ /\ sdkLog' = Append(sdkLog, [op |-> "init", ok |-> TRUE])
          /\ sdkPc' = "run"
          /\ UNCHANGED sdkPending
       \/ \E e \in SdkErrors :
          /\ sdkLog' = Append(sdkLog, [op |-> "init", ok |-> FALSE])
          /\ sdkPc' = "delete"
          /\ sdkPending' = <<Throwing(e)>>
    /\ UNCHANGED <<sdkKey, sdkSteps, sdkName, sdkCommand, sdkSandbox, sdkOut>>

\* lines 69-80: the command settles and the inner try completes
SdkRun ==
    /\ sdkPc = "run"
    /\ \/ \E r \in ExecuteResponses :
          /\ sdkLog' = Append(sdkLog, [op |-> "run", ok |-> TRUE])
          /\ sdkPending' = <<Returning(SandboxResult(r, sdkCommand, sdkSandbox[1], SandboxName))>>
       \/ \E e \in SdkErrors :
          /\ sdkLog' = Append(sdkLog, [op |-> "run", ok |-> FALSE])
          /\ sdkPending' = <<Throwing(e)>>
    /\ sdkPc' = "delete"
    /\ UNCHANGED <<sdkKey, sdkSteps, sdkName, sdkCommand, sdkSandbox, sdkOut>>

\* the finally block with its try removed: a failing delete replaces the
\* completion of the inner try
SdkDeleteUnguarded ==
    /\ sdkPc = "delete"
    /\ \E ok \in BOOLEAN :
        /\ sdkLog' = Append(sdkLog, [op |-> "delete", ok |-> ok])
        /\ LET done == IF ok THEN sdkPending[1] ELSE Throwing(<<"g", "o", "n", "e">>)
           IN  IF done.threw
               THEN /\ sdkPc' = "threw"
                    /\ sdkOut' = <<WrapSandboxFailure(done.value)>>
               ELSE /\ sdkPc' = "returned"
                    /\ sdkOut' = <<done>>
    /\ UNCHANGED <<sdkKey, sdkSteps, sdkName, sdkCommand, sdkSandbox, sdkPending>>

\* lines 81-92: sandbox.delete settles, its failure is logged only; then the
\* inner try's completion takes effect, a throw through the outer catch
SdkDelete ==
    /\ sdkPc = "delete"
    /\ \E ok \in BOOLEAN :
        sdkLog' = Append(sdkLog, [op |-> "delete", ok |-> ok])
    /\ IF sdkPending[1].threw
       THEN /\ sdkPc' = "threw"
            /\ sdkOut' = <<WrapSandboxFailure(sdkPending[1].value)>>
       ELSE /\ sdkPc' = "returned"
            /\ sdkOut' = <<sdkPending[1]>>
    /\ UNCHANGED <<sdkKey, sdkSteps, sdkName, sdkCommand, sdkSandbox, sdkPending>>

MaxStepLines == 2

\* lines of repro steps: commands the function knows, with and without
\* bullets and indentation, prose, and empty lines
StepLines ==
    {<<"n", "p", "m", " ", "t", "e", "s", "t">>,
     <<" ", " ", "y", "a", "r", "n", " ", "b", "u", "i", "l", "d", " ">>,
     <<"-", " ", "n", "p", "m", " ", "r", "u", "n", " ", "t", "e", "s", "t">>,
     <<"n", "o", "d", "e", " ", "a", ".", "j", "s">>,
     <<"o", "p", "e", "n", " ", "t", "h", "e", " ", "p", "a", "g", "e">>,
     <<>>,
     <<"*", " ", "p", "n", "p", "m", " ", "i">>}

\* the repro steps of up to MaxStepLines lines
SdkStepInputs ==
    {Join(ls, <<NL>>) : ls \in UNION {[1..n -> StepLines] : n \in 1..MaxStepLines}}

InitSdk ==
    /\ sdkKey \in BOOLEAN
    /\ sdkSteps \in SdkStepInputs
    /\ sdkName \in {<<>>, <<"b", "o", "x">>}
    /\ sdkPc = "start"
    /\ sdkCommand = <<>>
    /\ sdkSandbox = <<>>
    /\ sdkLog = <<>>
    /\ sdkPending = <<>>
    /\ sdkOut = <<>>
    /\ RunIdle
    /\ PackIdle
    /\ SandboxIdle
    /\ WsIdle
    /\ ExIdle
    /\ RouteIdle

NextSdk ==
    \/ (SdkStart /\ UNCHANGED notSdk)
    \/ (SdkCreate /\ UNCHANGED notSdk)
    \/ (SdkCheck /\ UNCHANGED notSdk)
    \/ (SdkInit /\ UNCHANGED notSdk)
    \/ (SdkRun /\ UNCHANGED notSdk)
    \/ (SdkDelete /\ UNCHANGED notSdk)

SpecSdk == InitSdk /\ [][NextSdk]_vars

-----------------------------------------------------------------------------
(* lib/daytonaClient.ts: createDaytonaWorkspace and waitForWorkspaceReady *)

\* possiblePaths of createDaytonaWorkspace (lines 124-129)
WorkspacePaths ==
    <<<<"/", "w", "o", "r", "k", "s", "p", "a", "c", "e">>,
      <<"/", "w", "o", "r", "k", "s", "p", "a", "c", "e", "s">>,
      <<"/", "v", "1", "/", "w", "o", "r", "k", "s", "p", "a", "c", "e">>,
      <<"/", "v", "1", "/", "w", "o", "r", "k", "s", "p", "a", "c", "e", "s">>>>

\* the number of request body formats tried at each path (lines 145-173)
BodyFormats == 3

EndpointNotFoundPrefix ==
    <<"E", "n", "d", "p", "o", "i", "n", "t", " ", "n", "o", "t", " ", "f", "o", "u",
      "n", "d", " ", "(">>
CreateFailedPrefix ==
    <<"F", "a", "i", "l", "e", "d", " ", "t", "o", " ", "c", "r", "e", "a", "t", "e",
      " ", "D", "a", "y", "t", "o", "n", "a", " ", "w", "o", "r", "k", "s", "p", "a", "c",
      "e", ".", " ", "T", "r", "i", "e", "d", " ", "a", "l", "l", " ", "e", "n", "d", "p",
      "o", "i", "n", "t", "s", " ", "a", "n", "d", " ", "f", "o", "r", "m", "a", "t", "s",
      ".", " ", "L", "a", "s", "t", " ", "e", "r", "r", "o", "r", ":", " ">>
UnknownError ==
    <<"U", "n", "k", "n", "o", "w", "n", " ", "e", "r", "r", "o", "r">>
NotReadyMessage ==
    <<"W", "o", "r", "k", "s", "p", "a", "c", "e", " ", "w", "1", " ", "d", "i", "d",
      " ", "n", "o", "t", " ", "b", "e", "c", "o", "m", "e", " ", "r", "e", "a", "d", "y",
      " ", "w", "i", "t", "h", "i", "n", " ", "6", "0", "0", "0", "0", "m", "s">>
FetchFailed ==
    <<"f", "e", "t", "c", "h", " ", "f", "a", "i", "l", "e", "d">>
UnexpectedToken ==
    <<"U", "n", "e", "x", "p", "e", "c", "t", "e", "d", " ", "t", "o", "k", "e", "n",
      " ", "<", " ", "i", "n", " ", "J", "S", "O", "N">>

\* the polls of waitForWorkspaceReady that fit in maxWaitMs: 30 in the code
\* (60000 / 2000), fewer here
MaxPolls == 2

\* what one create request comes to: fetch rejects; the answer is ok and its
\* body is not JSON, a workspace with an id, or one without; the status is
\* 404; the status is another error
CreateOutcomes == {"network", "badjson", "workspace", "noid", "404", "status"}

\* the workspace in an ok answer
CreatedWorkspace(kind, path) ==
    [id |-> IF kind = "workspace" THEN <<"w1">> ELSE <<>>, path |-> path]

\* leaving the try of the current path: the next path, or the throw after the
\* loop (line 229) with the last error's message
NextPath(lastError) ==
    IF wsPath < Len(WorkspacePaths)
    THEN /\ wsPath' = wsPath + 1
         /\ wsBody' = 1
         /\ wsFound404' = FALSE
         /\ wsPc' = "request"
         /\ wsOut' = wsOut
    ELSE /\ wsPc' = "threw"
         /\ wsOut' = <<Throwing(CreateFailedPrefix
                                \o (IF lastError = <<>> THEN UnknownError ELSE lastError[1]))>>
         /\ UNCHANGED <<wsPath, wsBody, wsFound404>>

\* lines 176-225: one create request settles, with what follows it up to the
\* next await
WsRequest ==
    /\ wsPc = "request"
    /\ \E kind \in CreateOutcomes :
        /\ wsRequests' = Append(wsRequests,
                                [path |-> wsPath, body |-> wsBody,
                                 ok |-> kind \in {"badjson", "workspace", "noid"}])
        /\ CASE kind = "network" ->
                  /\ wsLastError' = <<FetchFailed>>
                  /\ NextPath(<<FetchFailed>>)
                  /\ UNCHANGED <<wsWorkspace, wsPolls>>
             [] kind = "badjson" ->
                  /\ wsLastError' = <<UnexpectedToken>>
                  /\ NextPath(<<UnexpectedToken>>)
                  /\ UNCHANGED <<wsWorkspace, wsPolls>>
             [] kind = "workspace" ->
                  /\ wsWorkspace' = <<CreatedWorkspace(kind, WorkspacePaths[wsPath])>>
                  /\ wsPc' = "wait"
                  /\ wsPolls' = 0
                  /\ UNCHANGED <<wsLastError, wsPath, wsBody, wsFound404, wsOut>>
             [] kind = "noid" ->
                  /\ wsWorkspace' = <<CreatedWorkspace(kind, WorkspacePaths[wsPath])>>
                  /\ wsPc' = "returned"
                  /\ wsOut' = <<Returning(CreatedWorkspace(kind, WorkspacePaths[wsPath]))>>
                  /\ UNCHANGED <<wsLastError, wsPath, wsBody, wsFound404, wsPolls>>
             [] kind \in {"404", "status"} ->
                  LET found == wsFound404 \/ kind = "404"
                      notFound == EndpointNotFoundPrefix \o WorkspacePaths[wsPath] \o <<")">>
                  IN  IF wsBody < BodyFormats
                      THEN /\ wsBody' = wsBody + 1
                           /\ wsFound404' = found
                           /\ UNCHANGED <<wsLastError, wsPath, wsPc, wsOut, wsWorkspace, wsPolls>>
                      ELSE /\ wsLastError' = IF found THEN <<notFound>> ELSE wsLastError
                           /\ NextPath(IF found THEN <<notFound>> ELSE wsLastError)
                           /\ UNCHANGED <<wsWorkspace, wsPolls>>

\* lines 239-253 and the catch of lines 219-225: one poll of the workspace
\* settles; Running ends the wait and the function returns the workspace;
\* otherwise the wait sleeps, and when maxWaitMs has passed it throws, which
\* the catch of the current path takes as that path's failure
WsPoll ==
    /\ wsPc = "wait"
    /\ \E status \in {"Running", "running", "creating", "error"} :
        IF status \in {"Running", "running"}
        THEN /\ wsPc' = "returned"
             /\ wsOut' = <<Returning(wsWorkspace[1])>>
             /\ UNCHANGED <<wsPolls, wsLastError, wsPath, wsBody, wsFound404>>
        ELSE IF wsPolls + 1 < MaxPolls
        THEN /\ wsPolls' = wsPolls + 1
             /\ UNCHANGED <<wsPc, wsOut, wsLastError, wsPath, wsBody, wsFound404>>
        ELSE /\ wsPolls' = wsPolls + 1
             /\ wsLastError' = <<NotReadyMessage>>
             /\ NextPath(<<NotReadyMessage>>)
    /\ UNCHANGED <<wsRequests, wsWorkspace>>

InitWs ==
    /\ wsPc = "request"
    /\ wsPath = 1
    /\ wsBody = 1
    /\ wsFound404 = FALSE
    /\ wsLastError = <<>>
    /\ wsRequests = <<>>
    /\ wsWorkspace = <<>>
    /\ wsPolls = 0
    /\ wsOut = <<>>
    /\ RunIdle
    /\ PackIdle
    /\ SandboxIdle
    /\ SdkIdle
    /\ ExIdle
    /\ RouteIdle

NextWs ==
    \/ (WsRequest /\ UNCHANGED notWs)
    \/ (WsPoll /\ UNCHANGED notWs)

SpecWs == InitWs /\ [][NextWs]_vars

-----------------------------------------------------------------------------
(* lib/daytonaClient.ts: executeInDaytona *)

\* the number of possiblePaths of executeInDaytona (lines 55-59)
ExecPaths == 3

NotFoundCode ==
    <<"4", "0", "4">>
ServerErrorCode ==
    <<"5", "0", "0">>
ApiErrorPrefix ==
    <<"D", "a", "y", "t", "o", "n", "a", " ", "A", "P", "I", " ", "e", "r", "r", "o",
      "r", " ", "(">>
AllPathsNotFound ==
    <<"F", "a", "i", "l", "e", "d", " ", "t", "o", " ", "e", "x", "e", "c", "u", "t",
      "e", " ", "c", "o", "m", "m", "a", "n", "d", ":", " ", "a", "l", "l", " ", "A", "P",
      "I", " ", "e", "n", "d", "p", "o", "i", "n", "t", " ", "p", "a", "t", "h", "s", " ",
      "r", "e", "t", "u", "r", "n", "e", "d", " ", "4", "0", "4">>
ConnectionRefused ==
    <<"c", "o", "n", "n", "e", "c", "t", " ", "E", "C", "O", "N", "N", "R", "E", "F",
      "U", "S", "E", "D", " ", "1", "2", "7", ".", "0", ".", "0", ".", "1", ":", "4", "0",
      "4", "0">>
ServiceDown ==
    <<"s", "e", "r", "v", "i", "c", "e", " ", "d", "o", "w", "n">>
UpstreamNotFound ==
    <<"u", "p", "s", "t", "r", "e", "a", "m", " ", "a", "n", "s", "w", "e", "r", "e",
      "d", " ", "4", "0", "4">>
NullDataMessage ==
    <<"C", "a", "n", "n", "o", "t", " ", "r", "e", "a", "d", " ", "p", "r", "o", "p",
      "e", "r", "t", "i", "e", "s", " ", "o", "f", " ", "n", "u", "l", "l", " ", "(", "r",
      "e", "a", "d", "i", "n", "g", " ", "'", "e", "x", "i", "t", "C", "o", "d", "e", "'",
      ")">>

\* what one exec request comes to: fetch rejects with a message; the answer
\* is ok and its body is not JSON, is null, or is an object with or without an
\* exit code and output; or the status is not ok and the body is some text
ExecOutcomes ==
    {[kind |-> "network", status |-> <<>>, text |-> m, exitCode |-> <<>>]
        : m \in {FetchFailed, ConnectionRefused}}
    \cup {[kind |-> k, status |-> <<>>, text |-> <<>>, exitCode |-> <<>>]
        : k \in {"badjson", "null"}}
    \cup {[kind |-> "data", status |-> <<>>, text |-> t, exitCode |-> c]
        : t \in {<<>>, <<"o", "k">>}, c \in {<<>>, <<0>>, <<1>>}}
    \cup {[kind |-> "status", status |-> NotFoundCode, text |-> <<>>, exitCode |-> <<>>]}
    \cup {[kind |-> "status", status |-> ServerErrorCode, text |-> t, exitCode |-> <<>>]
        : t \in {ServiceDown, UpstreamNotFound}}

\* the result object of lines 79-84: `data.stdout || ''`, and exitCode as it is
ExecSuccess(outcome) ==
    [success  |-> outcome.exitCode = <<0>>,
     stdout   |-> outcome.text,
     stderr   |-> <<>>,
     exitCode |-> outcome.exitCode]

\* the result object of lines 98-102 and 106-110
ExecFailure(message) ==
    [success |-> FALSE, stdout |-> <<>>, stderr |-> message, exitCode |-> <<>>]

\* what lines 65-93 raise for an outcome, if anything: <<message>> or <<>>
ExecRaised(outcome) ==
    CASE outcome.kind = "network" -> <<outcome.text>>
      [] outcome.kind = "badjson" -> <<UnexpectedToken>>
      [] outcome.kind = "null"    -> <<NullDataMessage>>
      [] outcome.kind = "status" /\ outcome.status # NotFoundCode ->
            <<ApiErrorPrefix \o outcome.status \o <<")", ":", " ">> \o outcome.text>>
      [] OTHER -> <<>>

\* `continue`: the next path, or the return after the loop
ExecContinue ==
    IF exPath < ExecPaths
    THEN /\ exPath' = exPath + 1
         /\ UNCHANGED <<exPc, exOut>>
    ELSE /\ exPc' = "returned"
         /\ exOut' = <<ExecFailure(AllPathsNotFound)>>
         /\ UNCHANGED exPath

\* lines 61-104: one exec request settles, with what follows it up to the
\* next request or the return
ExecRequest ==
    /\ exPc = "request"
    /\ \E outcome \in ExecOutcomes :
        /\ exRequests' = Append(exRequests, [path |-> exPath, outcome |-> outcome])
        /\ LET raised == ExecRaised(outcome)
           IN  IF outcome.kind = "data"
               THEN /\ exPc' = "returned"
                    /\ exOut' = <<ExecSuccess(outcome)>>
                    /\ UNCHANGED exPath
               ELSE IF outcome.kind = "status" /\ outcome.status = NotFoundCode
               THEN ExecContinue
               ELSE IF Includes(raised[1], NotFoundCode)
               THEN ExecContinue
               ELSE /\ exPc' = "returned"
                    /\ exOut' = <<ExecFailure(raised[1])>>
                    /\ UNCHANGED exPath

InitEx ==
    /\ exPc = "request"
    /\ exPath = 1
    /\ exRequests = <<>>
    /\ exOut = <<>>
    /\ RunIdle
    /\ PackIdle
    /\ SandboxIdle
    /\ SdkIdle
    /\ WsIdle
    /\ RouteIdle

NextEx == ExecRequest /\ UNCHANGED notEx

SpecEx == InitEx /\ [][NextEx]_vars

-----------------------------------------------------------------------------
(* app/api/analyze/route.ts: the POST handler around runQaAgent *)

\* JSON.stringify then parse, as NextResponse.json sends a value: a property
\* whose value is undefined is left out, an undefined array element is null
RECURSIVE JsonValue(_)
JsonValue(value) ==
    CASE value.t = "object" ->
            Obj([k \in {key \in DOMAIN value.v : value.v[key].t # "undefined"}
                    |-> JsonValue(value.v[k])])
      [] value.t = "array" ->
            Arr([i \in 1..Len(value.v) |->
                    IF value.v[i].t = "undefined" THEN Null ELSE JsonValue(value.v[i])])
      [] OTHER -> value

\* request bodies: text that is not JSON, and the JSON values null, {}, an
\* object whose stackTrace is not a string, is blank, or is a stack trace
Requests ==
    {[parsed |-> FALSE, body |-> Undefined],
     [parsed |-> TRUE, body |-> Null],
     [parsed |-> TRUE, body |-> Obj(NoFields)],
     [parsed |-> TRUE, body |-> Obj([stackTrace |-> Bool(TRUE)])],
     [parsed |-> TRUE, body |-> Obj([stackTrace |-> Str(<<" ", NL, TAB>>)])]}
    \cup {[parsed |-> TRUE, body |-> Obj([stackTrace |-> Str(raw)])] : raw \in RunInputs}

\* typeof body?.stackTrace === 'string' ? body.stackTrace : ''
StackTraceOf(body) ==
    IF ~Nullish(body) /\ Get(body, "stackTrace").t = "string"
    THEN Get(body, "stackTrace").v
    ELSE <<>>

MissingStackTrace ==
    [status |-> 400, body |-> [error |-> "Missing stackTrace in request body"]]

KeyNotConfigured ==
    [status |-> 500,
     body |-> [error |-> "OPENAI_API_KEY not configured",
               details |-> "Please set OPENAI_API_KEY in .env.local and restart the dev server"]]

\* the answer of the catch block (lines 419-427)
AgentRunFailed(message) ==
    [status |-> 500, body |-> [error |-> "Agent run failed", details |-> message]]

\* NextResponse.json(result), status 200
Success(runResult) == [status |-> 200, body |-> JsonValue(Obj(runResult))]

\* lines 392-415: the body is read and checked, and runQaAgent is called or
\* the request answered
RouteReceive ==
    /\ routePc = "received"
    /\ pc = "idle"
    /\ IF ~request.parsed
       THEN /\ response' = <<AgentRunFailed("Unexpected token in JSON")>>
            /\ routePc' = "responded"
            /\ UNCHANGED <<rawStackTrace, pc, runsStarted>>
       ELSE LET stackTrace == StackTraceOf(request.body)
            IN  IF Trim(stackTrace) = <<>>
                THEN /\ response' = <<MissingStackTrace>>
                     /\ routePc' = "responded"
                     /\ UNCHANGED <<rawStackTrace, pc, runsStarted>>
                ELSE IF ~apiKey
                THEN /\ response' = <<KeyNotConfigured>>
                     /\ routePc' = "responded"
                     /\ UNCHANGED <<rawStackTrace, pc, runsStarted>>
                ELSE /\ rawStackTrace' = stackTrace
                     /\ pc' = "newClient"
                     /\ runsStarted' = runsStarted + 1
                     /\ routePc' = "running"
                     /\ UNCHANGED response
    /\ UNCHANGED <<request, apiKey, state, records, calls, failures, thrown, result>>

\* lines 417-427: runQaAgent has settled and the request is answered
RouteRespond ==
    /\ routePc = "running"
    /\ pc \in {"returned", "threw"}
    /\ response' = IF pc = "returned" THEN <<Success(result[1])>>
                    ELSE <<AgentRunFailed(thrown[1].message)>>
    /\ routePc' = "responded"
    /\ UNCHANGED <<request, runsStarted, runVars>>

InitRoute ==
    /\ request \in Requests
    /\ routePc = "received"
    /\ response = <<>>
    /\ runsStarted = 0
    /\ rawStackTrace = <<>>
    /\ apiKey \in BOOLEAN
    /\ state = "INGEST"
    /\ pc = "idle"
    /\ contextPack = Undefined
    /\ diagnosis = Undefined
    /\ reproAndFix = Undefined
    /\ execution = Undefined
    /\ verification = Undefined
    /\ calls = <<>>
    /\ failures = <<>>
    /\ thrown = <<>>
    /\ result = <<>>
    /\ PackIdle
    /\ SandboxIdle
    /\ SdkIdle
    /\ WsIdle
    /\ ExIdle

NextRoute ==
    \/ (RouteReceive /\ UNCHANGED outsideRoute)
    \/ (RouteRespond /\ UNCHANGED outsideRoute)
    \/ (NewClient /\ UNCHANGED outsideRun)
    \/ (Ingest /\ UNCHANGED outsideRun)
    \/ (CurateContext /\ UNCHANGED outsideRun)
    \/ (DiagnoseCall /\ UNCHANGED outsideRun)
    \/ (DiagnoseSettle /\ UNCHANGED outsideRun)
    \/ (GenerateRepro /\ UNCHANGED outsideRun)
    \/ (ExecuteCall /\ UNCHANGED outsideRun)
    \/ (ExecuteSettle /\ UNCHANGED outsideRun)
    \/ (VerifyCall /\ UNCHANGED outsideRun)
    \/ (VerifySettle /\ UNCHANGED outsideRun)
    \/ (CheckDone /\ UNCHANGED outsideRun)

SpecRoute == InitRoute /\ [][NextRoute]_vars

-----------------------------------------------------------------------------
(* Properties of buildContextPack, checked under SpecPack. *)

InputLines == SplitLines(rawInput)

\* the lines of the input that read as a stack frame
AtLines == {i \in 1..Len(InputLines) : StartsWith(Trim(InputLines[i]), <<"a", "t", " ">>)}

\* the lines of the input that contain "error", in any case
ErrorLines == {i \in 1..Len(InputLines) : TestError(InputLines[i])}

NonBlankLines == {i \in 1..Len(InputLines) : Trim(InputLines[i]) # <<>>}

\* C1: the JSON serialization of the record buildContextPack returns is at
\* most 1200 characters long, whatever the input.
C1_SerializedWithinBudget ==
    packPc = "returned" => Len(StringifyContext(pack)) <= MAX_CONTEXT_CHARS

\* s contains "error" in some mix of upper and lower case
ContainsErrorAnyCase(s) ==
    \E i \in 1..(Len(s) - 4) :
        /\ s[i] \in {"e", "E"}
        /\ s[i + 1] \in {"r", "R"}
        /\ s[i + 2] \in {"r", "R"}
        /\ s[i + 3] \in {"o", "O"}
        /\ s[i + 4] \in {"r", "R"}

\* the first n units of s, all of s when it is shorter
Prefix(s, n) == [i \in 1..(IF Len(s) < n THEN Len(s) ELSE n) |-> s[i]]

\* the least element of a non-empty set of line numbers
FirstOf(S) == CHOOSE i \in S : \A j \in S : i <= j

\* C11 as stated: the error is the first non-empty line that contains "error"
\* in any case, cut to 280 characters; without such a line the first non-empty
\* line, cut to 280 characters; without a non-empty line the placeholder; it is
\* never empty and never longer than 280 characters.
C11_ErrorIsFirstErrorLine ==
    LET lines    == InputLines
        nonEmpty == {i \in 1..Len(lines) : lines[i] # <<>>}
        matching == {i \in nonEmpty : ContainsErrorAnyCase(lines[i])}
    IN  packPc # "call"
            => /\ packPc = "returned"
               /\ pack.error = IF matching # {} THEN Prefix(lines[FirstOf(matching)], 280)
                                ELSE IF nonEmpty # {} THEN Prefix(lines[FirstOf(nonEmpty)], 280)
                                ELSE PLACEHOLDER
               /\ pack.error # <<>>
               /\ Len(pack.error) <= 280

\* C11 amended: a line counts as empty when it is empty once trimmed, and the
\* line chosen is trimmed before it is cut: the error is the trimmed form, cut
\* to 280 characters, of the first line that is not blank and contains "error"
\* in any case; without such a line, of the first line that is not blank;
\* without such a line it is the placeholder. It is never empty and never
\* longer than 280 characters.
C11_ErrorIsFirstErrorLineTrimmed ==
    LET lines    == InputLines
        nonBlank == NonBlankLines
        matching == {i \in nonBlank : ContainsErrorAnyCase(lines[i])}
    IN  packPc # "call"
            => /\ packPc = "returned"
               /\ pack.error = IF matching # {}
                                THEN Prefix(Trim(lines[FirstOf(matching)]), 280)
                                ELSE IF nonBlank # {}
                                     THEN Prefix(Trim(lines[FirstOf(nonBlank)]), 280)
                                     ELSE PLACEHOLDER
               /\ pack.error # <<>>
               /\ Len(pack.error) <= 280

\* an input whose first line has no "error", whose second has it in upper
\* case and whose third is a longer error line: the error is the second line
C11_Witness ==
    /\ packPc = "returned"
    /\ Len(InputLines) >= 3
    /\ ~ContainsErrorAnyCase(InputLines[1]) /\ 1 \in NonBlankLines
    /\ ContainsErrorAnyCase(InputLines[2])
    /\ ContainsErrorAnyCase(InputLines[3]) /\ Len(Trim(InputLines[3])) > 280
    /\ pack.error = InputLines[2]

\* C7: the record buildContextPack returns has at most 5 topFrames.
C7_AtMostFiveFrames ==
    packPc = "returned" => Len(pack.topFrames) <= MAX_FRAMES

\* an input with more than 5 frame lines, of which 5 were kept
C7_Witness ==
    /\ packPc = "returned"
    /\ Cardinality(AtLines) > MAX_FRAMES
    /\ Len(pack.topFrames) = MAX_FRAMES

\* C9 as stated: with no line containing "error" and no `at ` line the record
\* has the placeholder as its error, no frames and no suspectedFile.
C9_PlaceholderWithoutErrorLine ==
    (packPc # "call" /\ ErrorLines = {} /\ AtLines = {})
        => /\ packPc = "returned"
           /\ pack.error = PLACEHOLDER
           /\ pack.topFrames = <<>>
           /\ pack.suspectedFile = <<>>

\* C9 amended: with no line containing "error" and no `at ` line the error is
\* the first non-blank line, trimmed and cut to 280 characters, and the
\* placeholder only when every line is blank; no frames, no suspectedFile.
C9_FirstLineWithoutErrorLine ==
    (packPc # "call" /\ ErrorLines = {} /\ AtLines = {})
        => /\ packPc = "returned"
           /\ pack.error = IF NonBlankLines = {} THEN PLACEHOLDER
                            ELSE SliceTo(Trim(InputLines[Min(NonBlankLines)]), ERROR_BUDGET)
           /\ pack.topFrames = <<>>
           /\ pack.suspectedFile = <<>>

\* an input without error line and frames whose first line is blank and whose
\* second is not: the error is that second line
C9_Witness ==
    /\ packPc = "returned"
    /\ ErrorLines = {} /\ AtLines = {}
    /\ NonBlankLines # {} /\ 1 \notin NonBlankLines
    /\ pack.error = Trim(InputLines[Min(NonBlankLines)])

IsString(s) == DOMAIN s = 1..Len(s)

\* C10: buildContextPack returns a record for every input and never throws;
\* the error is a non-empty string, the frames are strings; for the empty
\* input the error is the placeholder and there are no frames and no file.
C10_NeverFails ==
    packPc # "call"
        => /\ packPc = "returned"
           /\ IsString(pack.error) /\ pack.error # <<>>
           /\ IsString(pack.topFrames)
           /\ \A i \in 1..Len(pack.topFrames) : IsString(pack.topFrames[i])
           /\ Len(pack.suspectedFile) <= 1
           /\ rawInput = <<>>
                => /\ pack.error = PLACEHOLDER
                   /\ pack.topFrames = <<>>
                   /\ pack.suspectedFile = <<>>

\* the call on the empty input has returned
C10_Witness ==
    /\ packPc = "returned"
    /\ rawInput = <<>>
    /\ pack.error = PLACEHOLDER

\* does the line contain an entry of the vendor denylist
MatchesDenylist(line) ==
    \E k \in 1..Len(VENDOR_PATTERNS) :
        \E i \in 1..Len(line) : OccursAt(line, VENDOR_PATTERNS[k], i)

\* the k-th least element of a set of line numbers
NthOf(S, k) == CHOOSE i \in S : Cardinality({j \in S : j <= i}) = k

\* the candidate lines of the input that are off the denylist
OffListLines ==
    LET lines == InputLines
    IN  {i \in 1..Len(lines) :
            StartsWith(Trim(lines[i]), <<"a", "t", " ">>) /\ ~MatchesDenylist(lines[i])}

\* the frames retained by frame extraction: of the candidate lines off the
\* denylist when there is one, of all candidate lines otherwise, the first 5
\* in the order of the input, trimmed
RetainedFrames ==
    LET lines     == InputLines
        offList   == OffListLines
        preferred == IF offList # {} THEN offList ELSE AtLines
        n         == Cardinality(preferred)
    IN  [k \in 1..(IF n < 5 THEN n ELSE 5) |-> Trim(lines[NthOf(preferred, k)])]

IsPrefixOf(short, long) ==
    /\ Len(short) <= Len(long)
    /\ \A k \in 1..Len(short) : short[k] = long[k]

\* does the returned record, with these frames as its topFrames, serialize to
\* at most 1200 characters
FitsBudget(frames) ==
    Len(StringifyContext([error |-> pack.error, topFrames |-> frames,
                          suspectedFile |-> pack.suspectedFile])) <= 1200

\* C12: the candidate frames are the lines whose trimmed form starts with
\* `at `; when a candidate matches no denylist pattern only such candidates
\* are kept and no returned frame contains a pattern, otherwise all candidates
\* are; the first 5 of them are kept, in the order of the input. topFrames is
\* that list, and a prefix of it when the record with all of it is over budget.
C12_FramesPreferNonVendor ==
    LET lines    == InputLines
        frames   == RetainedFrames
        atLines  == AtLines
        offList  == OffListLines
    IN  packPc = "returned"
            => /\ IsPrefixOf(pack.topFrames, frames)
               /\ FitsBudget(frames) => pack.topFrames = frames
               /\ Len(pack.topFrames) <= 5
               /\ offList # {}
                     => \A k \in 1..Len(pack.topFrames) :
                           ~MatchesDenylist(pack.topFrames[k])
               /\ offList = {}
                     => IsPrefixOf(pack.topFrames,
                                   [k \in 1..Cardinality(atLines) |->
                                       Trim(lines[NthOf(atLines, k)])])

\* an input with more than 5 candidates off the denylist and a candidate on
\* it: the 5 frames are the first 5 off the list
C12_Witness ==
    /\ packPc = "returned"
    /\ AtLines \ OffListLines # {}
    /\ Cardinality(OffListLines) > 5
    /\ Len(pack.topFrames) = 5
    /\ \A k \in 1..5 : ~MatchesDenylist(pack.topFrames[k])

\* C13: when the record with the retained frames serializes to more than 1200
\* characters, topFrames is the longest prefix of them with which the record
\* fits, the empty one included; when it fits, topFrames is all of them.
C13_LongestFittingPrefix ==
    LET frames == RetainedFrames
    IN  packPc = "returned"
            => IF FitsBudget(frames) THEN pack.topFrames = frames
               ELSE /\ IsPrefixOf(pack.topFrames, frames)
                    /\ FitsBudget(pack.topFrames)
                    /\ Len(pack.topFrames) < Len(frames)
                    /\ ~FitsBudget(SubSeq(frames, 1, Len(pack.topFrames) + 1))

SourceExtensions == {<<".", "t", "s">>, <<".", "t", "s", "x">>,
                     <<".", "j", "s">>, <<".", "j", "s", "x">>}

\* is frame[i..j] path-like with a source extension: a "/", then one unit or
\* more, then the extension, and no ":", "(" or ")" in it
IsSourcePath(frame, i, j) ==
    /\ frame[i] = "/"
    /\ \A k \in (i + 1)..j : frame[k] \notin {":", "(", ")"}
    /\ \E x \in SourceExtensions :
          /\ j - Len(x) >= i + 1
          /\ OccursAt(frame, x, j - Len(x) + 1)

PathSpans(frame) ==
    {sp \in {i \in 1..Len(frame) : frame[i] = "/"}
              \X {j \in 1..Len(frame) : frame[j] \in {"s", "x"}} :
        IsSourcePath(frame, sp[1], sp[2])}

\* the first such substring of a frame that has one: the leftmost start, from
\* it the nearest end, the extension taken with its "x"
FirstSourcePath(frame) ==
    LET spans == PathSpans(frame)
        i     == FirstOf({sp[1] : sp \in spans})
        j     == FirstOf({sp[2] : sp \in {q \in spans : q[1] = i}})
    IN  SubSeq(frame, i, IF <<i, j + 1>> \in spans THEN j + 1 ELSE j)

\* C14: suspectedFile is the first path-like substring with extension .ts,
\* .tsx, .js or .jsx of the first retained frame that has one, and it is
\* omitted exactly when no retained frame has one.
C14_SuspectedFileIsFirstPath ==
    LET frames   == RetainedFrames
        withPath == {k \in 1..Len(frames) : PathSpans(frames[k]) # {}}
    IN  packPc = "returned"
            => /\ pack.suspectedFile = <<>> <=> withPath = {}
               /\ withPath # {}
                     => pack.suspectedFile = <<FirstSourcePath(frames[FirstOf(withPath)])>>

\* an input whose first retained frame has a path inside a longer one, both
\* from the same "/": the file is the shorter
C14_Witness ==
    /\ packPc = "returned"
    /\ pack.topFrames # <<>>
    /\ \E a, b \in PathSpans(pack.topFrames[1]) :
          /\ a[1] = b[1] /\ a[2] + 1 < b[2]
          /\ \A c \in PathSpans(pack.topFrames[1]) : a[1] <= c[1]
    /\ pack.suspectedFile = <<<<"/", "x", ".", "j", "s">>>>

ExampleFrame == <<"a", "t", " ", "f", "o", "o", " ", "(", "/", "a", "p", "p", "/", "s", "r",
                  "c", "/", "a", ".", "t", "s", ":", "1", ":", "1", ")">>

ExampleFile == <<"/", "a", "p", "p", "/", "s", "r", "c", "/", "a", ".", "t", "s">>

\* C15: for the input "TypeError: x", "    at foo (/app/src/a.ts:1:1)",
\* "    at node_modules/bar.js:2:2" on three lines the error is
\* "TypeError: x", topFrames is the first frame alone and suspectedFile is
\* /app/src/a.ts.
C15_ExampleRecord ==
    (packPc # "call" /\ rawInput = ExampleTrace)
        => /\ packPc = "returned"
           /\ pack.error = <<"T", "y", "p", "e", "E", "r", "r", "o", "r", ":", " ", "x">>
           /\ pack.topFrames = <<ExampleFrame>>
           /\ pack.suspectedFile = <<ExampleFile>>

\* the call on the example has returned
C15_Witness ==
    /\ packPc = "returned"
    /\ rawInput = ExampleTrace
    /\ Len(pack.topFrames) = 1

\* C16: nothing of the input is in the record but a prefix of at most 280
\* characters of one trimmed line, as error (or the placeholder); trimmed
\* `at ` lines, as topFrames; and a substring of a retained frame line, as
\* suspectedFile.
C16_OnlyCuratedText ==
    LET lines   == InputLines
        atLines == AtLines
        frames  == RetainedFrames
    IN  packPc = "returned"
            => /\ \/ pack.error = PLACEHOLDER
                  \/ /\ Len(pack.error) <= 280
                     /\ \E i \in 1..Len(lines) : IsPrefixOf(pack.error, Trim(lines[i]))
               /\ \A k \in 1..Len(pack.topFrames) :
                     \E i \in atLines : pack.topFrames[k] = Trim(lines[i])
               /\ pack.suspectedFile # <<>>
                     => \E k \in 1..Len(frames) :
                           \E i \in 1..Len(frames[k]) :
                               OccursAt(frames[k], pack.suspectedFile[1], i)

\* an input with an error line of more than 280 characters and frames: the error is 280 characters of it, and there are frames and a file
C16_Witness ==
    /\ packPc = "returned"
    /\ Len(pack.error) = 280
    /\ \E i \in 1..Len(InputLines) :
          Len(Trim(InputLines[i])) > 280 /\ IsPrefixOf(pack.error, Trim(InputLines[i]))
    /\ pack.topFrames # <<>>
    /\ pack.suspectedFile # <<>>

\* does some frame of the list contain the text
SomeFrameContains(frames, text) ==
    \E k \in 1..Len(frames) : \E i \in 1..Len(frames[k]) : OccursAt(frames[k], text, i)

\* C26 as stated: a suspectedFile is a substring of one of the frames of the
\* returned topFrames, also when budget enforcement has dropped frames.
C26_FileInReturnedFrames ==
    (packPc = "returned" /\ pack.suspectedFile # <<>>)
        => SomeFrameContains(pack.topFrames, pack.suspectedFile[1])

\* C26 amended: a suspectedFile is a substring of one of the frames retained by
\* frame extraction, and of one of the returned topFrames when budget
\* enforcement has dropped none of them; it is kept as it is when budget
\* enforcement drops the frame it comes from.
C26_FileInRetainedFrames ==
    LET frames == RetainedFrames
    IN  (packPc = "returned" /\ pack.suspectedFile # <<>>)
            => /\ SomeFrameContains(frames, pack.suspectedFile[1])
               /\ pack.topFrames = frames
                     => SomeFrameContains(pack.topFrames, pack.suspectedFile[1])
               /\ \A k \in 1..Len(pack.topFrames) :
                     (\A j \in 1..(k - 1) : PathSpans(frames[j]) = {}) /\ PathSpans(frames[k]) # {}
                        => SomeFrameContains(<<pack.topFrames[k]>>, pack.suspectedFile[1])

\* an input whose frames budget enforcement has all dropped: the file of the
\* first of them is still in the record
C26_Witness ==
    /\ packPc = "returned"
    /\ pack.topFrames = <<>>
    /\ pack.suspectedFile # <<>>
    /\ SomeFrameContains(<<RetainedFrames[1]>>, pack.suspectedFile[1])

-----------------------------------------------------------------------------
(* Properties of runQaAgent, checked under Spec. *)

\* the strings a value holds, at any depth
RECURSIVE StringsOf(_)
StringsOf(value) ==
    CASE value.t = "string" -> {value.v}
      [] value.t = "array"  -> UNION {StringsOf(value.v[i]) : i \in 1..Len(value.v)}
      [] value.t = "object" -> UNION {StringsOf(value.v[k]) : k \in DOMAIN value.v}
      [] OTHER              -> {}

CallsOf(op) == {i \in 1..Len(calls) : calls[i].op = op}

\* C2: the raw input text is present in no argument of any call of
\* diagnoseAndPlan, runInSandbox or verifyFixWithLlm.
C2_RawNeverReachesCollaborators ==
    rawStackTrace # <<>>
        => \A i \in 1..Len(calls) : \A a \in 1..Len(calls[i].args) :
              \A str \in StringsOf(calls[i].args[a]) : ~Includes(str, rawStackTrace)

StageSteps ==
    {<<"INGEST", "CURATE_CONTEXT">>, <<"CURATE_CONTEXT", "DIAGNOSE">>,
     <<"DIAGNOSE", "GENERATE_REPRO">>, <<"GENERATE_REPRO", "EXECUTE">>,
     <<"EXECUTE", "VERIFY">>, <<"VERIFY", "DONE">>}

\* the stage whose collaborator call the run awaits
AwaitedStage ==
    CASE pc = "awaitDiagnose" -> "DIAGNOSE"
      [] pc = "awaitExecute"  -> "EXECUTE"
      [] pc = "awaitVerify"   -> "VERIFY"
      [] OTHER                -> state

\* C3: the stage only ever moves to its immediate successor in INGEST,
\* CURATE_CONTEXT, DIAGNOSE, GENERATE_REPRO, EXECUTE, VERIFY, DONE, so no stage
\* is skipped or entered twice; while a collaborator call is awaited the run
\* is still in the stage that made it, and no other call is made.
C3_StagesInOrder ==
    /\ [](state \in States /\ state = AwaitedStage)
    /\ [][/\ state' # state => <<state, state'>> \in StageSteps
          /\ pc \in {"awaitDiagnose", "awaitExecute", "awaitVerify"} => calls' = calls]_vars

\* a run that went through every stage
C3_Witness ==
    /\ pc = "returned"
    /\ state = "DONE"
    /\ Len(calls) = 3

\* C4: a result is returned only in state DONE; a run that ends in another
\* state has thrown and returned nothing, and no collaborator error is the
\* error that reports a run stopped short of DONE.
C4_ReturnsOnlyWhenDone ==
    /\ result # <<>> => pc = "returned"
    /\ pc = "returned" => state = "DONE" /\ result # <<>> /\ thrown = <<>>
    /\ (pc \in {"returned", "threw"} /\ state # "DONE")
          => pc = "threw" /\ thrown # <<>> /\ result = <<>>
    /\ \A i \in 1..Len(failures) : failures[i].error # NotDoneError

\* a run that returned, in DONE
C4_Witness ==
    /\ pc = "returned"
    /\ state = "DONE"
    /\ result # <<>>

DiagnosisFailed == failures # <<>> /\ failures[1].op = "diagnoseAndPlan"

HasString(value, key) == Get(value, key).t = "string"

HasBoolean(value, key) == Get(value, key).t = "boolean"

\* C6: every returned result has all five records with their required fields:
\* a reply that is not of the expected shape fails the run.
C6_ResultComplete ==
    pc = "returned"
        => /\ HasString(result[1].contextPack, "error")
           /\ Get(result[1].contextPack, "topFrames").t = "array"
           /\ HasString(result[1].diagnosis, "rootCause")
           /\ HasString(result[1].diagnosis, "impactSummary")
           /\ HasString(result[1].reproAndFix, "reproSteps")
           /\ HasString(result[1].reproAndFix, "fixSnippet")
           /\ HasBoolean(result[1].execution, "success")
           /\ HasString(result[1].execution, "stdout")
           /\ HasBoolean(result[1].verification, "fixWorked")
           /\ HasString(result[1].verification, "explanation")

ExecutionSucceeded == execution.t = "object" /\ Get(execution, "success") = Bool(TRUE)

ExecutionFailed == execution.t = "object" /\ Get(execution, "success") = Bool(FALSE)

\* C17: in a run whose runInSandbox returned success: true the stage after
\* EXECUTE is VERIFY, and verifyFixWithLlm is called, once and with that
\* record, before the run is in DONE or over.
C17_SuccessStillVerified ==
    ExecutionSucceeded
        => /\ state \in {"VERIFY", "DONE"}
           /\ Cardinality(CallsOf("verifyFixWithLlm")) = IF pc = "verify" THEN 0 ELSE 1
           /\ \A i \in CallsOf("verifyFixWithLlm") : calls[i].args[4] = execution
           /\ state = "DONE" => pc \in {"check", "returned"}

\* a run that returned after a successful execution and one verification
C17_Witness ==
    /\ pc = "returned"
    /\ ExecutionSucceeded
    /\ Cardinality(CallsOf("verifyFixWithLlm")) = 1

\* C18: when runInSandbox returns success: false the run does not abort on it:
\* no failure is recorded for runInSandbox, verifyFixWithLlm is called with
\* that record, only a failure of that call ends the run with an exception,
\* and when that call succeeds the run is in DONE and goes on to return a
\* result whose execution.success is false.
C18_FailedExecutionIsData ==
    /\ [](ExecutionFailed
            => /\ \A i \in 1..Len(failures) : failures[i].op # "runInSandbox"
               /\ Cardinality(CallsOf("verifyFixWithLlm")) = IF pc = "verify" THEN 0 ELSE 1
               /\ \A i \in CallsOf("verifyFixWithLlm") : calls[i].args[4] = execution
               /\ pc = "threw"
                     => /\ failures # <<>>
                        /\ failures[Len(failures)].op = "verifyFixWithLlm"
                        /\ thrown = <<failures[Len(failures)].error>>
               /\ pc = "returned"
                     => Get(result[1].execution, "success") = Bool(FALSE))
    /\ [][(ExecutionFailed /\ pc = "awaitVerify" /\ failures' = failures)
             => (state' = "DONE" /\ pc' = "check")]_vars
    /\ (ExecutionFailed /\ pc = "verify") ~> (pc = "awaitVerify")
    /\ (ExecutionFailed /\ state = "DONE") ~> (pc = "returned" /\ result # <<>>)

\* a run that returned after a failed execution
C18_Witness ==
    /\ pc = "returned"
    /\ state = "DONE"
    /\ ExecutionFailed
    /\ Get(result[1].execution, "success") = Bool(FALSE)

\* C19: diagnoseAndPlan, runInSandbox and verifyFixWithLlm are each called at
\* most once in a run; once one of them has failed the run is over with an
\* exception, that call is the last one made, and there is no result.
C19_NoRetryFirstFailureAborts ==
    /\ \A op \in {"diagnoseAndPlan", "runInSandbox", "verifyFixWithLlm"} :
          Cardinality(CallsOf(op)) <= 1
    /\ failures # <<>>
          => /\ Len(failures) = 1
             /\ pc = "threw"
             /\ result = <<>>
             /\ calls[Len(calls)].op = failures[1].op

\* a run whose third call, of verifyFixWithLlm, failed
C19_Witness ==
    /\ failures # <<>>
    /\ failures[1].op = "verifyFixWithLlm"
    /\ Len(calls) = 3
    /\ pc = "threw"

-----------------------------------------------------------------------------
(* Properties of runInSandbox, checked under SpecSandbox. *)

\* C20: runInSandbox returns for every string, the empty one included, a
\* record with a boolean success and a string stdout, and does not throw.
C20_SandboxNeverFails ==
    sandboxPc # "call"
        => /\ sandboxPc = "returned"
           /\ HasBoolean(sandboxOut, "success")
           /\ HasString(sandboxOut, "stdout")

\* the call on the empty string has returned success: false
C20_Witness ==
    /\ sandboxPc = "returned"
    /\ sandboxInput = <<>>
    /\ Get(sandboxOut, "success") = Bool(FALSE)
    /\ HasString(sandboxOut, "stdout")

-----------------------------------------------------------------------------
(* More properties of runQaAgent. *)

\* C21: diagnoseAndPlan is called with the record of CURATE_CONTEXT alone,
\* runInSandbox with the reproSteps of the record of DIAGNOSE alone,
\* verifyFixWithLlm with the four records made before it, in that order; the
\* raw input is an argument of no call.
C21_StageInputsMinimal ==
    \A i \in 1..Len(calls) :
        /\ calls[i].op = "diagnoseAndPlan"
              => calls[i].args = <<contextPack>> /\ contextPack # Undefined
        /\ calls[i].op = "runInSandbox"
              => calls[i].args = <<Get(reproAndFix, "reproSteps")>> /\ reproAndFix # Undefined
        /\ calls[i].op = "verifyFixWithLlm"
              => /\ calls[i].args = <<contextPack, diagnosis, reproAndFix, execution>>
                 /\ contextPack # Undefined /\ execution # Undefined
        /\ \A a \in 1..Len(calls[i].args) : calls[i].args[a] # Str(rawStackTrace)

\* a run in which all three calls were made
C21_Witness ==
    /\ CallsOf("diagnoseAndPlan") = {1}
    /\ CallsOf("runInSandbox") = {2}
    /\ CallsOf("verifyFixWithLlm") = {3}
    /\ calls[2].args[1].t = "string"

\* C23: each of the five records changes at most once, from undefined, in the
\* stage that produces it, and the result returned holds the five records as
\* they were produced and passed to the calls.
C23_RecordsWrittenOnce ==
    /\ [][/\ contextPack' # contextPack => (contextPack = Undefined /\ pc = "curate")
          /\ diagnosis' # diagnosis => (diagnosis = Undefined /\ pc = "awaitDiagnose")
          /\ reproAndFix' # reproAndFix => (reproAndFix = Undefined /\ pc = "awaitDiagnose")
          /\ execution' # execution => (execution = Undefined /\ pc = "awaitExecute")
          /\ verification' # verification
                => (verification = Undefined /\ pc = "awaitVerify")]_vars
    /\ [](pc = "returned"
            => /\ DOMAIN result[1] = {"contextPack", "diagnosis", "reproAndFix", "execution",
                                      "verification"}
               /\ result[1].contextPack = contextPack
               /\ result[1].diagnosis = diagnosis
               /\ result[1].reproAndFix = reproAndFix
               /\ result[1].execution = execution
               /\ result[1].verification = verification
               /\ calls[3].args = <<result[1].contextPack, result[1].diagnosis,
                                    result[1].reproAndFix, result[1].execution>>)

\* a run that returned with all five records written
C23_Witness ==
    /\ pc = "returned"
    /\ contextPack # Undefined /\ diagnosis # Undefined /\ reproAndFix # Undefined
    /\ execution # Undefined /\ verification # Undefined

\* C25: a run whose awaited calls all settle ends, returned in DONE with a
\* result or thrown with an error, and does not stay in a stage between; a run
\* whose three calls were made and did not fail has returned in DONE.
C25_RunTerminates ==
    /\ <>(pc \in {"returned", "threw"})
    /\ [](pc = "returned" => (state = "DONE" /\ result # <<>>))
    /\ [](pc = "threw" => (thrown # <<>> /\ result = <<>>))
    /\ []((pc \in {"returned", "threw"} /\ Len(calls) = 3 /\ failures = <<>>)
            => (pc = "returned" /\ state = "DONE"))
    /\ (Len(calls) = 3 /\ failures = <<>>) ~> (pc = "returned" \/ failures # <<>>)

\* a run whose three calls succeeded and that has returned
C25_Witness ==
    /\ pc = "returned"
    /\ failures = <<>>
    /\ Len(calls) = 3
    /\ result # <<>>

-----------------------------------------------------------------------------
(* More properties of runInSandbox, checked under SpecSandbox. *)

\* does s contain the lower-case word in some mix of upper and lower case
ContainsAnyCase(s, word) ==
    \E i \in 1..(Len(s) - Len(word) + 1) :
        \A j \in 1..Len(word) : LowerUnit(s[i + j - 1]) = word[j]

\* does s end with the text
EndsWith(s, text) ==
    /\ Len(text) <= Len(s)
    /\ \A j \in 1..Len(text) : s[Len(s) - Len(text) + j] = text[j]

-----------------------------------------------------------------------------
(* Properties of createSandboxAndExecute, checked under SpecSdk. *)

\* the positions in the log of the SDK calls of one kind
LoggedAt(op) == {i \in 1..Len(sdkLog) : sdkLog[i].op = op}

\* C27: once daytona.create has resolved, sandbox.delete is called exactly once
\* before createSandboxAndExecute returns or throws, as the last SDK call,
\* after a command that ran and after one that failed; the call returns what
\* the command gave, or throws its wrapped error, whether the delete failed or
\* not. Without a sandbox there is no delete.
C27_SandboxDeletedOnce ==
    LET deletes == LoggedAt("delete")
        created == \E i \in LoggedAt("create") : sdkLog[i].ok
        ended   == sdkPc \in {"returned", "threw"}
    IN  /\ Cardinality(deletes) <= 1
        /\ ~created => deletes = {}
        /\ (created /\ ended) =>
              /\ deletes = {Len(sdkLog)}
              /\ LET before == sdkLog[Len(sdkLog) - 1]
                 IN  /\ before.op \in {"run", "init"}
                     /\ (sdkPc = "returned") <=> (before.op = "run" /\ before.ok)
                     /\ (sdkPc = "threw") <=> ~before.ok
              /\ sdkPc = "returned" => sdkOut = sdkPending
              /\ sdkPc = "threw" =>
                    /\ sdkPending[1].threw
                    /\ sdkOut[1].threw
                    /\ sdkOut[1].value = SandboxFailurePrefix \o sdkPending[1].value

\* a call that returned the command's result although the delete failed, the
\* command being one that needed a package.json
C27_Witness ==
    /\ sdkPc = "returned"
    /\ sdkOut # <<>>
    /\ ~sdkOut[1].threw
    /\ sdkLog[Len(sdkLog)].op = "delete"
    /\ ~sdkLog[Len(sdkLog)].ok
    /\ LoggedAt("check") # {}

-----------------------------------------------------------------------------
(* Properties of createDaytonaWorkspace, checked under SpecWs. *)

\* C28: a create request that was answered ok is the last create request of
\* the call: none follows it at any path or with any body, also when the
\* workspace did not become ready.
C28_AtMostOneWorkspace ==
    \A i \in 1..Len(wsRequests) : wsRequests[i].ok => i = Len(wsRequests)

-----------------------------------------------------------------------------
(* Properties of executeInDaytona, checked under SpecEx. *)

\* the endpoint answered with status 404
AnsweredNotFound(outcome) == outcome.kind = "status" /\ outcome.status = NotFoundCode

\* C29: executeInDaytona does not throw; it tries the paths in order; it goes
\* to the next path only after a 404; it returns success: true only for an ok
\* answer with exitCode 0; after any other error it returns success: false
\* with the error's text and tries no further path; after a 404 from every
\* path it returns the 'all API endpoint paths returned 404' failure.
C29_ExecNeverThrows ==
    LET n == Len(exRequests)
    IN  /\ exPc # "threw"
        /\ \A i \in 1..n : exRequests[i].path = i
        /\ \A i \in 1..(n - 1) : AnsweredNotFound(exRequests[i].outcome)
        /\ exPc = "returned" =>
              LET last == exRequests[n].outcome
                  out  == exOut[1]
              IN  /\ out.success <=> (last.kind = "data" /\ last.exitCode = <<0>>)
                  /\ (last.kind # "data" /\ ~AnsweredNotFound(last)) =>
                        /\ ~out.success
                        /\ out.stderr # <<>>
                        /\ out.stderr # AllPathsNotFound
                        /\ last.text # <<>> => Includes(out.stderr, last.text)
                  /\ AnsweredNotFound(last) =>
                        /\ n = ExecPaths
                        /\ out = [success |-> FALSE, stdout |-> <<>>,
                                  stderr |-> AllPathsNotFound, exitCode |-> <<>>]


-----------------------------------------------------------------------------
(* Properties of the POST handler, checked under SpecRoute. *)

\* the request carries a stackTrace that is a string with something other
\* than white space in it
HasStackTrace ==
    /\ request.parsed
    /\ request.body.t = "object"
    /\ "stackTrace" \in DOMAIN request.body.v
    /\ request.body.v["stackTrace"].t = "string"
    /\ \E i \in 1..Len(request.body.v["stackTrace"].v) :
          request.body.v["stackTrace"].v[i] \notin WhiteSpace

Answered == routePc = "responded"

\* runQaAgent is called only for a request with a stack trace and with the
\* key configured, and once
C30_RunOnlyWhenValid ==
    /\ runsStarted <= 1
    /\ runsStarted = 1 => (HasStackTrace /\ apiKey)

\* a request without a stack trace is answered 400 and starts no run
C30_MissingTraceIs400 ==
    (Answered /\ ~HasStackTrace) => (response[1].status = 400 /\ runsStarted = 0)

\* a request with a stack trace, the key missing, is answered 500 and starts
\* no run
C30_MissingKeyIs500 ==
    (Answered /\ HasStackTrace /\ ~apiKey) => (response[1].status = 500 /\ runsStarted = 0)

\* a run that threw is answered 500 'Agent run failed'
C30_RunFailureIs500 ==
    (Answered /\ pc = "threw") =>
        (response[1].status = 500 /\ response[1].body.error = "Agent run failed")

\* 200 is answered only for a run that returned in DONE, with its five records
C30_SuccessIsComplete ==
    (Answered /\ response[1].status = 200) =>
        /\ pc = "returned"
        /\ state = "DONE"
        /\ DOMAIN response[1].body.v =
              {"contextPack", "diagnosis", "reproAndFix", "execution", "verification"}

\* C30: the POST handler calls runQaAgent only for a non-blank string
\* stackTrace with OPENAI_API_KEY configured; a missing or blank stackTrace is
\* answered 400 and a missing key 500, both without a run; a run that failed
\* is answered 500 'Agent run failed'; 200 is answered only with the complete
\* result of a run that reached DONE.
C30_HandlerAnswers ==
    /\ C30_RunOnlyWhenValid
    /\ C30_MissingTraceIs400
    /\ C30_MissingKeyIs500
    /\ C30_RunFailureIs500
    /\ C30_SuccessIsComplete

====
